---- MODULE Spec2Model ----
(***************************************************************************)
(* A model of the crucible C-subset compiler: the lexer (lexer.rs), the    *)
(* parser (parser.rs), the resolver (resolve.rs), the TAC generator        *)
(* (irgen.rs) and the code generator (codegen.rs).                         *)
(* Each pass is a pure function of its input; a pass is modelled by        *)
(* operators that compute what the code computes, and by actions that      *)
(* apply them step by step to inputs drawn from bounded sets.              *)
(***************************************************************************)
EXTENDS Integers, Sequences, FiniteSets, TLC

VARIABLES
    pc,            \* the step the modelled pass has reached
    tac,           \* ir::Function.body, the TAC instruction list
    instructions,  \* codegen.rs generate_function: `instructions`
    stack_map,     \* codegen.rs generate_function: `stack_map`
    next_stack,    \* codegen.rs generate_function: `next_stack`
    body,          \* ast::Function.body, the block items given to flatten
    origin,        \* for each instruction of tac, the AST node whose arm appended it
    ip,            \* the index in tac of the TAC instruction executed next
    env,           \* the values of the TAC variables written so far
    tested,        \* per && / || node, the operand values its TAC has tested
    returned,      \* the value the executed Return produced, if any
    func_body,     \* resolve.rs resolve_function: `func.body`, the parsed block items
    variable_map,  \* resolve.rs Context.variable_map
    counter,       \* resolve.rs Context.counter
    resolved_body, \* resolve.rs resolve_function: `resolved_body`
    resolved,      \* the Result that resolve returned, if it has returned
    tokens,        \* lexer.rs lex: `tokens`; parser.rs Parser.tokens
    current,       \* parser.rs Parser.current
    block_items,   \* parser.rs parse_function: `body`, the block items parsed so far
    parsed,        \* the Result that parse returned, if it has returned
    missing,       \* the punctuator left out of a valid token sequence, if one was
    source,        \* lexer.rs lex: `source`, the text given to lex
    input,         \* lexer.rs lex: `input`, the source text not yet consumed
    args,          \* main.rs main: `args`, the command-line arguments
    ran,           \* the passes main has called, in order, each with its outcome
    files,         \* the files next to the input that exist: "i", "s", "exe"
    commands,      \* the external commands main has run, in order, with their outcome
    exit_status,   \* the exit status of the process, once it has ended
    assembly_code, \* main.rs main: `assembly_code`, the lines emit returned
    lexed          \* the Result that lex returned, if it has returned

cgVars == <<instructions, stack_map, next_stack>>
irVars == <<body, origin>>
exVars == <<ip, env, tested, returned>>
rsVars == <<func_body, variable_map, counter, resolved_body, resolved>>
psVars == <<tokens, current, block_items, parsed, missing>>
lxVars == <<source, input, lexed>>
mnVars == <<args, ran, files, commands, exit_status, assembly_code>>
vars == <<pc, tac, instructions, stack_map, next_stack, body, origin, ip, env, tested,
          returned, func_body, variable_map, counter, resolved_body, resolved,
          tokens, current, block_items, parsed, missing, source, input, lexed,
          args, ran, files, commands, exit_status>>

\* main has not been entered: the passes are modelled apart from the driver.
MainNotStarted ==
    /\ args = <<>> /\ ran = <<>> /\ files = {} /\ commands = <<>> /\ exit_status = <<>>
    /\ assembly_code = <<>>

(***************************************************************************)
(* Bounds of the model.                                                    *)
(***************************************************************************)
\* Longest arbitrary TAC body handed to codegen::generate.
MaxTacLen == 1
\* Most leading Copy instructions (each to a fresh name) before that body.
MaxPrefix == 3
\* Most operator nodes of the expression of a single-statement function body.
MaxOps == 2
\* Most block items of a function body whose expressions are leaves.
MaxItems == 2
\* Most block items of a parsed function body handed to resolve.
MaxBlocks == 2
\* Most statements of a token sequence handed to parse that has several.
MaxStatements == 2
\* Most pieces (a keyword, or one character) of a source text handed to lex.
MaxSource == 3
\* Most command-line arguments given to main.
MaxArgs == 2
\* Most operator nodes in an operand of the binary expressions flatten is given.
MaxOperandOps == 1
\* Most declarations of a function body taken through resolve, flatten and generate.
MaxDeclarations == 2
\* Most `=` of a chain of assignments handed to parse.
MaxChain == 3

(***************************************************************************)
(* Generic helpers.                                                        *)
(***************************************************************************)
RECURSIVE Flatten(_)
\* The concatenation of a sequence of sequences.
Flatten(ss) == IF ss = <<>> THEN <<>> ELSE Head(ss) \o Flatten(Tail(ss))

RECURSIVE BitAnd(_, _)
\* Two's complement `&` on integers (floor division is the arithmetic shift).
BitAnd(a, b) ==
    IF a = 0 \/ b = 0 THEN 0
    ELSE IF a = -1 THEN b
    ELSE IF b = -1 THEN a
    ELSE (a % 2) * (b % 2) + 2 * BitAnd(a \div 2, b \div 2)

\* Two's complement `!` on integers.
BitNot(a) == -a - 1

(***************************************************************************)
(* ir.rs: TAC values and instructions.                                     *)
(***************************************************************************)
Constant(v) == [kind |-> "Constant", val |-> v]
Variable(n) == [kind |-> "Variable", name |-> n]

IrReturn(value) == [tag |-> "Return", value |-> value]
IrUnary(op, src, dst) == [tag |-> "Unary", op |-> op, src |-> src, dst |-> dst]
IrBinary(op, src1, src2, dst) ==
    [tag |-> "Binary", op |-> op, src1 |-> src1, src2 |-> src2, dst |-> dst]
IrCopy(src, dst) == [tag |-> "Copy", src |-> src, dst |-> dst]
IrJump(target) == [tag |-> "Jump", target |-> target]
IrJumpIfZero(condition, target) ==
    [tag |-> "JumpIfZero", condition |-> condition, target |-> target]
IrJumpIfNotZero(condition, target) ==
    [tag |-> "JumpIfNotZero", condition |-> condition, target |-> target]
IrLabel(name) == [tag |-> "Label", name |-> name]

IrUnaryOperator == {"Complement", "Negate", "Not"}
IrRelational ==
    {"Equal", "NotEqual", "LessThan", "LessOrEqual", "GreaterThan", "GreaterOrEqual"}
IrBinaryOperator ==
    {"Add", "Subtract", "Multiply", "Divide", "Modulo", "BitwiseAnd", "BitwiseOr",
     "BitwiseXor", "LeftShift", "RightShift"} \cup IrRelational

(***************************************************************************)
(* asm.rs: operands and instructions of the assembly IR.                   *)
(***************************************************************************)
Immediate(v) == [kind |-> "Immediate", val |-> v]
Register(r) == [kind |-> "Register", reg |-> r]
Pseudo(n) == [kind |-> "Pseudo", name |-> n]
Stack(o) == [kind |-> "Stack", off |-> o]

AX == Register("AX")
CX == Register("CX")
DX == Register("DX")
R10 == Register("R10")
R11 == Register("R11")

Move(dst, src) == [tag |-> "Move", dst |-> dst, src |-> src]
AsmUnary(op, operand) == [tag |-> "Unary", op |-> op, operand |-> operand]
AsmBinary(op, dst, src) == [tag |-> "Binary", op |-> op, dst |-> dst, src |-> src]
Compare(dst, src) == [tag |-> "Compare", dst |-> dst, src |-> src]
AsmJump(target) == [tag |-> "Jump", target |-> target]
JumpCondition(cond, target) == [tag |-> "JumpCondition", cond |-> cond, target |-> target]
SetCondition(cond, dst) == [tag |-> "SetCondition", cond |-> cond, dst |-> dst]
AsmLabel(name) == [tag |-> "Label", name |-> name]
Division(operand) == [tag |-> "Division", operand |-> operand]
ConvertDQ == [tag |-> "ConvertDQ"]
AllocateStack(amount) == [tag |-> "AllocateStack", amount |-> amount]
AsmReturn == [tag |-> "Return"]

\* The operands of an assembly instruction, in the order the code visits them.
Operands(inst) ==
    CASE inst.tag \in {"Move", "Binary", "Compare"} -> <<inst.dst, inst.src>>
      [] inst.tag \in {"Unary", "Division"} -> <<inst.operand>>
      [] inst.tag = "SetCondition" -> <<inst.dst>>
      [] OTHER -> <<>>

(***************************************************************************)
(* codegen.rs, Phase A: generate_instruction and its operator maps.        *)
(***************************************************************************)
map_src_operand(src) ==
    IF src.kind = "Constant" THEN Immediate(src.val) ELSE Pseudo(src.name)

map_unary(op) ==
    CASE op = "Complement" -> "Not"
      [] op = "Negate" -> "Neg"
      [] OTHER -> "unreachable"

\* A plausible slip: the shift operators have no arm.
map_binary_NoShift(op) ==
    CASE op = "Add" -> "Add"
      [] op = "Subtract" -> "Sub"
      [] op = "Multiply" -> "Mul"
      [] op = "BitwiseAnd" -> "And"
      [] op = "BitwiseOr" -> "Or"
      [] op = "BitwiseXor" -> "Xor"
      [] OTHER -> "unreachable"
map_binary(op) ==
    CASE op = "Add" -> "Add"
      [] op = "Subtract" -> "Sub"
      [] op = "Multiply" -> "Mul"
      [] op = "BitwiseAnd" -> "And"
      [] op = "BitwiseOr" -> "Or"
      [] op = "BitwiseXor" -> "Xor"
      [] op = "LeftShift" -> "Sal"
      [] op = "RightShift" -> "Sar"
      [] OTHER -> "unreachable"

map_binary_relational(op) ==
    CASE op = "Equal" -> "Equal"
      [] op = "NotEqual" -> "NotEqual"
      [] op = "GreaterThan" -> "Greater"
      [] op = "GreaterOrEqual" -> "GreaterEqual"
      [] op = "LessThan" -> "Less"
      [] op = "LessOrEqual" -> "LessEqual"
      [] OTHER -> "unreachable"

\* A plausible slip: a constant left operand of a comparison is not staged in R11.
LowerInstruction_NoStaging(inst) ==
    CASE inst.tag = "Return" ->
            <<Move(AX, map_src_operand(inst.value)), AsmReturn>>
      [] inst.tag = "Unary" ->
            IF inst.op = "Not"
            THEN <<Move(R11, Immediate(0)),
                   Compare(R11, map_src_operand(inst.src)),
                   Move(Pseudo(inst.dst), Immediate(0)),
                   SetCondition("Equal", Pseudo(inst.dst))>>
            ELSE <<Move(Pseudo(inst.dst), map_src_operand(inst.src)),
                   AsmUnary(map_unary(inst.op), Pseudo(inst.dst))>>
      [] inst.tag = "Binary" ->
            IF inst.op \in {"Divide", "Modulo"}
            THEN <<Move(AX, map_src_operand(inst.src1)),
                   ConvertDQ,
                   Division(map_src_operand(inst.src2)),
                   Move(Pseudo(inst.dst), IF inst.op = "Divide" THEN AX ELSE DX)>>
            ELSE IF inst.op \in IrRelational
            THEN <<Compare(map_src_operand(inst.src1), map_src_operand(inst.src2))>>
                 \o <<Move(Pseudo(inst.dst), Immediate(0)),
                      SetCondition(map_binary_relational(inst.op), Pseudo(inst.dst))>>
            ELSE <<Move(Pseudo(inst.dst), map_src_operand(inst.src1)),
                   AsmBinary(map_binary(inst.op), Pseudo(inst.dst),
                             map_src_operand(inst.src2))>>
      [] inst.tag = "JumpIfZero" ->
            <<Move(R11, Immediate(0)),
              Compare(R11, map_src_operand(inst.condition)),
              JumpCondition("Equal", inst.target)>>
      [] inst.tag = "JumpIfNotZero" ->
            <<Move(R11, Immediate(0)),
              Compare(R11, map_src_operand(inst.condition)),
              JumpCondition("NotEqual", inst.target)>>
      [] inst.tag = "Copy" ->
            <<Move(Pseudo(inst.dst), map_src_operand(inst.src))>>
      [] inst.tag = "Label" -> <<AsmLabel(inst.name)>>
      [] inst.tag = "Jump" -> <<AsmJump(inst.target)>>
\* The assembly instructions one TAC instruction is lowered to.
LowerInstruction(inst) ==
    CASE inst.tag = "Return" ->
            <<Move(AX, map_src_operand(inst.value)), AsmReturn>>
      [] inst.tag = "Unary" ->
            IF inst.op = "Not"
            THEN <<Move(R11, Immediate(0)),
                   Compare(R11, map_src_operand(inst.src)),
                   Move(Pseudo(inst.dst), Immediate(0)),
                   SetCondition("Equal", Pseudo(inst.dst))>>
            ELSE <<Move(Pseudo(inst.dst), map_src_operand(inst.src)),
                   AsmUnary(map_unary(inst.op), Pseudo(inst.dst))>>
      [] inst.tag = "Binary" ->
            IF inst.op \in {"Divide", "Modulo"}
            THEN <<Move(AX, map_src_operand(inst.src1)),
                   ConvertDQ,
                   Division(map_src_operand(inst.src2)),
                   Move(Pseudo(inst.dst), IF inst.op = "Divide" THEN AX ELSE DX)>>
            ELSE IF inst.op \in IrRelational
            THEN (IF map_src_operand(inst.src1).kind = "Immediate"
                  THEN <<Move(R11, Immediate(map_src_operand(inst.src1).val)),
                         Compare(R11, map_src_operand(inst.src2))>>
                  ELSE <<Compare(map_src_operand(inst.src1),
                                 map_src_operand(inst.src2))>>)
                 \o <<Move(Pseudo(inst.dst), Immediate(0)),
                      SetCondition(map_binary_relational(inst.op), Pseudo(inst.dst))>>
            ELSE <<Move(Pseudo(inst.dst), map_src_operand(inst.src1)),
                   AsmBinary(map_binary(inst.op), Pseudo(inst.dst),
                             map_src_operand(inst.src2))>>
      [] inst.tag = "JumpIfZero" ->
            <<Move(R11, Immediate(0)),
              Compare(R11, map_src_operand(inst.condition)),
              JumpCondition("Equal", inst.target)>>
      [] inst.tag = "JumpIfNotZero" ->
            <<Move(R11, Immediate(0)),
              Compare(R11, map_src_operand(inst.condition)),
              JumpCondition("NotEqual", inst.target)>>
      [] inst.tag = "Copy" ->
            <<Move(Pseudo(inst.dst), map_src_operand(inst.src))>>
      [] inst.tag = "Label" -> <<AsmLabel(inst.name)>>
      [] inst.tag = "Jump" -> <<AsmJump(inst.target)>>

generate_instruction(ir_body) ==
    Flatten([i \in 1..Len(ir_body) |-> LowerInstruction(ir_body[i])])

(***************************************************************************)
(* codegen.rs, Phase B: fix_operand and the "Fix Pseudos" loop.            *)
(***************************************************************************)
\* A plausible slip: the map is never looked up, every occurrence gets a new slot.
fix_operand_NoLookup(op, map, next) ==
    IF op.kind = "Pseudo"
    THEN [op |-> Stack(next), map |-> map @@ (op.name :> next), next |-> next + 4]
    ELSE [op |-> op, map |-> map, next |-> next]
\* The operand after replacement, with the updated map and next offset.
fix_operand(op, map, next) ==
    IF op.kind = "Pseudo"
    THEN IF op.name \in DOMAIN map
         THEN [op |-> Stack(map[op.name]), map |-> map, next |-> next]
         ELSE [op |-> Stack(next), map |-> map @@ (op.name :> next), next |-> next + 4]
    ELSE [op |-> op, map |-> map, next |-> next]

\* A plausible slip: the loop has no arm for SetCondition.
FixPseudoInstruction_NoSetCondition(inst, map, next) ==
    CASE inst.tag \in {"Move", "Binary", "Compare"} ->
            LET d == fix_operand(inst.dst, map, next)
                s == fix_operand(inst.src, d.map, d.next)
            IN  [inst |-> [inst EXCEPT !.dst = d.op, !.src = s.op],
                 map |-> s.map, next |-> s.next]
      [] inst.tag \in {"Unary", "Division"} ->
            LET o == fix_operand(inst.operand, map, next)
            IN  [inst |-> [inst EXCEPT !.operand = o.op], map |-> o.map, next |-> o.next]
      [] OTHER -> [inst |-> inst, map |-> map, next |-> next]

\* One iteration of the loop: the instruction with its operands replaced.
FixPseudoInstruction(inst, map, next) ==
    CASE inst.tag \in {"Move", "Binary", "Compare"} ->
            LET d == fix_operand(inst.dst, map, next)
                s == fix_operand(inst.src, d.map, d.next)
            IN  [inst |-> [inst EXCEPT !.dst = d.op, !.src = s.op],
                 map |-> s.map, next |-> s.next]
      [] inst.tag \in {"Unary", "Division"} ->
            LET o == fix_operand(inst.operand, map, next)
            IN  [inst |-> [inst EXCEPT !.operand = o.op], map |-> o.map, next |-> o.next]
      [] inst.tag = "SetCondition" ->
            LET d == fix_operand(inst.dst, map, next)
            IN  [inst |-> [inst EXCEPT !.dst = d.op], map |-> d.map, next |-> d.next]
      [] OTHER -> [inst |-> inst, map |-> map, next |-> next]

RECURSIVE FixPseudosLoop(_, _, _, _)
\* The whole loop over `instructions`, from index i on.
FixPseudosLoop(insts, i, map, next) ==
    IF i > Len(insts)
    THEN [instructions |-> insts, map |-> map, next |-> next]
    ELSE LET r == FixPseudoInstruction(insts[i], map, next)
         IN  FixPseudosLoop([insts EXCEPT ![i] = r.inst], i + 1, r.map, r.next)

(***************************************************************************)
(* codegen.rs, Phase C: the fixups, each a linear rewrite.                 *)
(***************************************************************************)
is_stack_to_stack(dst, src) == dst.kind = "Stack" /\ src.kind = "Stack"

\* Each fixup loop replaces an instruction by its rewrite and then skips what the
\* rewrite inserted, so the result is the concatenation of the rewrites.
FixMove(inst) ==
    IF inst.tag = "Move" /\ is_stack_to_stack(inst.dst, inst.src)
    THEN <<Move(R10, inst.src), Move(inst.dst, R10)>>
    ELSE <<inst>>
fix_moves(insts) == Flatten([i \in 1..Len(insts) |-> FixMove(insts[i])])

\* A plausible slip: the divisor is staged after the division, not before it.
FixDivision_MoveAfter(inst) ==
    IF inst.tag = "Division" /\ inst.operand.kind = "Immediate"
    THEN <<Division(R10), Move(R10, Immediate(inst.operand.val))>>
    ELSE <<inst>>
FixDivision(inst) ==
    IF inst.tag = "Division" /\ inst.operand.kind = "Immediate"
    THEN <<Move(R10, Immediate(inst.operand.val)), Division(R10)>>
    ELSE <<inst>>
fix_div_imm(insts) == Flatten([i \in 1..Len(insts) |-> FixDivision(insts[i])])

\* A plausible slip: the source is staged through R11, the scratch of fix_multiply.
FixBinary_ViaR11(inst) ==
    IF inst.tag = "Binary" /\ is_stack_to_stack(inst.dst, inst.src)
    THEN <<Move(R11, inst.src), AsmBinary(inst.op, inst.dst, R11)>>
    ELSE <<inst>>
FixBinary(inst) ==
    IF inst.tag = "Binary" /\ is_stack_to_stack(inst.dst, inst.src)
    THEN <<Move(R10, inst.src), AsmBinary(inst.op, inst.dst, R10)>>
    ELSE <<inst>>
fix_binary(insts) == Flatten([i \in 1..Len(insts) |-> FixBinary(insts[i])])

\* A plausible slip: only a count in memory is staged through CX.
FixShift_StackOnly(inst) ==
    IF inst.tag = "Binary" /\ inst.op \in {"Sal", "Sar"} /\ inst.src.kind = "Stack"
    THEN <<Move(CX, inst.src), AsmBinary(inst.op, inst.dst, CX)>>
    ELSE <<inst>>
FixShift(inst) ==
    IF inst.tag = "Binary" /\ inst.op \in {"Sal", "Sar"} /\ inst.src.kind # "Immediate"
    THEN <<Move(CX, inst.src), AsmBinary(inst.op, inst.dst, CX)>>
    ELSE <<inst>>
fix_shifts(insts) == Flatten([i \in 1..Len(insts) |-> FixShift(insts[i])])

\* A plausible slip: the test looks at the source operand, not the destination.
FixMultiply_TestsSrc(inst) ==
    IF inst.tag = "Binary" /\ inst.op = "Mul" /\ inst.src.kind = "Stack"
    THEN <<Move(R11, inst.dst), AsmBinary("Mul", R11, inst.src), Move(inst.dst, R11)>>
    ELSE <<inst>>
FixMultiply(inst) ==
    IF inst.tag = "Binary" /\ inst.op = "Mul" /\ inst.dst.kind = "Stack"
    THEN <<Move(R11, inst.dst), AsmBinary("Mul", R11, inst.src), Move(inst.dst, R11)>>
    ELSE <<inst>>
fix_multiply(insts) == Flatten([i \in 1..Len(insts) |-> FixMultiply(insts[i])])

\* A plausible slip: the compare keeps its memory source after staging it.
FixCompare_KeepsSrc(inst) ==
    IF inst.tag = "Compare" /\ is_stack_to_stack(inst.dst, inst.src)
    THEN <<Move(R10, inst.src), Compare(inst.dst, inst.src)>>
    ELSE <<inst>>
FixCompare(inst) ==
    IF inst.tag = "Compare" /\ is_stack_to_stack(inst.dst, inst.src)
    THEN <<Move(R10, inst.src), Compare(inst.dst, R10)>>
    ELSE <<inst>>
fix_compares(insts) == Flatten([i \in 1..Len(insts) |-> FixCompare(insts[i])])

\* A plausible slip: the first offset (4) is not taken off the next offset.
StackSize_NoSub(next) == next
\* generate_function, lines 58-59: the allocated size.
StackSize(next) == next - 4
Aligned(stack_size) == BitAnd(stack_size + 15, BitNot(15))

(***************************************************************************)
(* The inputs of codegen::generate: up to MaxPrefix Copy instructions,     *)
(* each to a fresh name, then up to MaxTacLen arbitrary TAC instructions.  *)
(***************************************************************************)
CgValues == {Constant(2), Variable("a.0")}
CgNames == {"tmp.0"}
CgLabels == {"and_false.0"}

CgInstructions ==
    {IrReturn(v) : v \in CgValues}
    \cup {IrUnary(op, s, d) : op \in IrUnaryOperator, s \in CgValues, d \in CgNames}
    \cup {IrBinary(op, s1, s2, d) :
            op \in IrBinaryOperator, s1 \in CgValues, s2 \in CgValues, d \in CgNames}
    \cup {IrCopy(s, d) : s \in CgValues, d \in CgNames}
    \cup {IrJump(t) : t \in CgLabels}
    \cup {IrJumpIfZero(c, t) : c \in CgValues, t \in CgLabels}
    \cup {IrJumpIfNotZero(c, t) : c \in CgValues, t \in CgLabels}
    \cup {IrLabel(t) : t \in CgLabels}

CgPrefix(k) == [i \in 1..k |-> IrCopy(Constant(0), "v." \o ToString(i))]

CgBodies == UNION {[1..n -> CgInstructions] : n \in 0..MaxTacLen}

CgPrograms == {CgPrefix(k) \o b : k \in 0..MaxPrefix, b \in CgBodies}

(***************************************************************************)
(* codegen::generate as a state machine: one action per step of            *)
(* generate_function.                                                      *)
(***************************************************************************)
InitCodegen ==
    /\ pc = "generate"
    /\ tac \in CgPrograms
    /\ instructions = <<>>
    /\ stack_map = <<>>
    /\ next_stack = 4
    /\ body = <<>>
    /\ origin = <<>>
    /\ ip = 0
    /\ env = <<>>
    /\ tested = <<>>
    /\ returned = <<>>
    /\ func_body = <<>>
    /\ variable_map = <<>>
    /\ counter = 0
    /\ resolved_body = <<>>
    /\ resolved = <<>>
    /\ tokens = <<>>
    /\ current = 0
    /\ block_items = <<>>
    /\ parsed = <<>>
    /\ missing = <<>>
    /\ source = <<>>
    /\ MainNotStarted
    /\ input = <<>>
    /\ lexed = <<>>

\* line 12: let mut instructions = generate_instruction(ir_func.body)
GenerateInstruction ==
    /\ pc = "generate"
    /\ instructions' = generate_instruction(tac)
    /\ pc' = "fix_pseudos"
    /\ UNCHANGED <<tac, stack_map, next_stack, irVars, exVars, rsVars, psVars, lxVars, mnVars>>

\* lines 14-49: the Fix Pseudos loop
FixPseudos ==
    /\ pc = "fix_pseudos"
    /\ LET r == FixPseudosLoop(instructions, 1, stack_map, next_stack)
       IN  /\ instructions' = r.instructions
           /\ stack_map' = r.map
           /\ next_stack' = r.next
    /\ pc' = "fix_moves"
    /\ UNCHANGED <<tac, irVars, exVars, rsVars, psVars, lxVars, mnVars>>

\* line 51: fix_moves(&mut instructions)
FixMoves ==
    /\ pc = "fix_moves"
    /\ instructions' = fix_moves(instructions)
    /\ pc' = "fix_div_imm"
    /\ UNCHANGED <<tac, stack_map, next_stack, irVars, exVars, rsVars, psVars, lxVars, mnVars>>

\* line 52: fix_div_imm(&mut instructions)
FixDivImm ==
    /\ pc = "fix_div_imm"
    /\ instructions' = fix_div_imm(instructions)
    /\ pc' = "fix_binary"
    /\ UNCHANGED <<tac, stack_map, next_stack, irVars, exVars, rsVars, psVars, lxVars, mnVars>>

\* line 53: fix_binary(&mut instructions)
FixBinaries ==
    /\ pc = "fix_binary"
    /\ instructions' = fix_binary(instructions)
    /\ pc' = "fix_shifts"
    /\ UNCHANGED <<tac, stack_map, next_stack, irVars, exVars, rsVars, psVars, lxVars, mnVars>>

\* line 54: fix_shifts(&mut instructions)
FixShifts ==
    /\ pc = "fix_shifts"
    /\ instructions' = fix_shifts(instructions)
    /\ pc' = "fix_multiply"
    /\ UNCHANGED <<tac, stack_map, next_stack, irVars, exVars, rsVars, psVars, lxVars, mnVars>>

\* line 55: fix_multiply(&mut instructions)
FixMultiplies ==
    /\ pc = "fix_multiply"
    /\ instructions' = fix_multiply(instructions)
    /\ pc' = "fix_compares"
    /\ UNCHANGED <<tac, stack_map, next_stack, irVars, exVars, rsVars, psVars, lxVars, mnVars>>

\* line 56: fix_compares(&mut instructions)
FixCompares ==
    /\ pc = "fix_compares"
    /\ instructions' = fix_compares(instructions)
    /\ pc' = "allocate"
    /\ UNCHANGED <<tac, stack_map, next_stack, irVars, exVars, rsVars, psVars, lxVars, mnVars>>

\* lines 58-60: instructions.insert(0, AllocateStack(aligned))
InsertAllocateStack ==
    /\ pc = "allocate"
    /\ instructions' = <<AllocateStack(Aligned(StackSize(next_stack)))>> \o instructions
    /\ pc' = "generated"
    /\ UNCHANGED <<tac, stack_map, next_stack, irVars, exVars, rsVars, psVars, lxVars, mnVars>>

NextCodegen ==
    \/ GenerateInstruction
    \/ FixPseudos
    \/ FixMoves
    \/ FixDivImm
    \/ FixBinaries
    \/ FixShifts
    \/ FixMultiplies
    \/ FixCompares
    \/ InsertAllocateStack

SpecCodegen == InitCodegen /\ [][NextCodegen]_vars

(***************************************************************************)
(* ast.rs: expressions, statements and block items.  An Option is a        *)
(* sequence of length 0 or 1.                                              *)
(***************************************************************************)
ExprConstant(v) == [kind |-> "Constant", val |-> v]
ExprVariable(n) == [kind |-> "Variable", name |-> n]
ExprUnary(op, inner) == [kind |-> "Unary", op |-> op, inner |-> inner]
ExprBinary(op, left, right) ==
    [kind |-> "Binary", op |-> op, left |-> left, right |-> right]
ExprAssignment(left, right) == [kind |-> "Assignment", left |-> left, right |-> right]

Declare(name, init) == [item |-> "Declare", name |-> name, init |-> init]
StateReturn(expr) == [item |-> "Return", expr |-> expr]
StateExpression(expr) == [item |-> "Expression", expr |-> expr]
StateNull == [item |-> "Null"]

\* The expression a block item holds, as an Option.
ItemExpr(block) ==
    CASE block.item = "Declare" -> block.init
      [] block.item \in {"Return", "Expression"} -> <<block.expr>>
      [] OTHER -> <<>>

(***************************************************************************)
(* irgen.rs: Context and flatten.  Every appended instruction is recorded  *)
(* with the AST node whose match arm appended it: a node is the path of    *)
(* child indices from the block item (item k is <<k>>, the inner or left   *)
(* operand adds 1, the right operand adds 2); the epilogue's node is <<>>. *)
(***************************************************************************)
ContextNew ==
    [instructions |-> <<>>, var_count |-> 0, label_count |-> 0, origin |-> <<>>,
     panicked |-> FALSE]

alloc_var(ctx) ==
    [name |-> "tmp." \o ToString(ctx.var_count),
     ctx |-> [ctx EXCEPT !.var_count = @ + 1]]

\* A plausible slip: the label counter is not advanced.
alloc_label_NoIncrement(ctx, prefix) ==
    [name |-> prefix \o "." \o ToString(ctx.label_count), ctx |-> ctx]
alloc_label(ctx, prefix) ==
    [name |-> prefix \o "." \o ToString(ctx.label_count),
     ctx |-> [ctx EXCEPT !.label_count = @ + 1]]

append(ctx, instr, node) ==
    [ctx EXCEPT !.instructions = Append(@, instr), !.origin = Append(@, node)]

convert_unary_op(op) ==
    CASE op = "Complement" -> "Complement"
      [] op = "Negate" -> "Negate"
      [] op = "LogicalNot" -> "Not"

convert_binary_op(op) ==
    IF op \in {"LogicalAnd", "LogicalOr"} THEN "unreachable" ELSE op

RECURSIVE flatten_expr(_, _, _)

\* A plausible slip: the branch that computed the right operand falls through
\* into the early-exit branch (no Jump to the end label).
flatten_and_NoJumpToEnd(expr, ctx, node) ==
    LET result == alloc_var(ctx)
        false_label == alloc_label(result.ctx, "and_false")
        end_label == alloc_label(false_label.ctx, "and_end")
        v1 == flatten_expr(expr.left, end_label.ctx, node \o <<1>>)
        c1 == append(v1.ctx, IrJumpIfZero(v1.val, false_label.name), node)
        v2 == flatten_expr(expr.right, c1, node \o <<2>>)
        right_bool == alloc_var(v2.ctx)
        c2 == append(right_bool.ctx,
                     IrBinary("NotEqual", v2.val, Constant(0), right_bool.name), node)
        c3 == append(c2, IrCopy(Variable(right_bool.name), result.name), node)
        c5 == append(c3, IrLabel(false_label.name), node)
        c6 == append(c5, IrCopy(Constant(0), result.name), node)
        c7 == append(c6, IrLabel(end_label.name), node)
    IN  [val |-> Variable(result.name), ctx |-> c7]

\* A plausible slip: both operands are lowered before the conditional jump.
flatten_and_JumpAfterRight(expr, ctx, node) ==
    LET result == alloc_var(ctx)
        false_label == alloc_label(result.ctx, "and_false")
        end_label == alloc_label(false_label.ctx, "and_end")
        v1 == flatten_expr(expr.left, end_label.ctx, node \o <<1>>)
        v2 == flatten_expr(expr.right, v1.ctx, node \o <<2>>)
        c1 == append(v2.ctx, IrJumpIfZero(v1.val, false_label.name), node)
        right_bool == alloc_var(c1)
        c2 == append(right_bool.ctx,
                     IrBinary("NotEqual", v2.val, Constant(0), right_bool.name), node)
        c3 == append(c2, IrCopy(Variable(right_bool.name), result.name), node)
        c4 == append(c3, IrJump(end_label.name), node)
        c5 == append(c4, IrLabel(false_label.name), node)
        c6 == append(c5, IrCopy(Constant(0), result.name), node)
        c7 == append(c6, IrLabel(end_label.name), node)
    IN  [val |-> Variable(result.name), ctx |-> c7]

\* flatten_expr, the LogicalAnd arm (lines 145-195).
flatten_and(expr, ctx, node) ==
    LET result == alloc_var(ctx)
        false_label == alloc_label(result.ctx, "and_false")
        end_label == alloc_label(false_label.ctx, "and_end")
        v1 == flatten_expr(expr.left, end_label.ctx, node \o <<1>>)
        c1 == append(v1.ctx, IrJumpIfZero(v1.val, false_label.name), node)
        v2 == flatten_expr(expr.right, c1, node \o <<2>>)
        right_bool == alloc_var(v2.ctx)
        c2 == append(right_bool.ctx,
                     IrBinary("NotEqual", v2.val, Constant(0), right_bool.name), node)
        c3 == append(c2, IrCopy(Variable(right_bool.name), result.name), node)
        c4 == append(c3, IrJump(end_label.name), node)
        c5 == append(c4, IrLabel(false_label.name), node)
        c6 == append(c5, IrCopy(Constant(0), result.name), node)
        c7 == append(c6, IrLabel(end_label.name), node)
    IN  [val |-> Variable(result.name), ctx |-> c7]

\* flatten_expr, the LogicalOr arm (lines 197-247).
flatten_or(expr, ctx, node) ==
    LET result == alloc_var(ctx)
        true_label == alloc_label(result.ctx, "or_true")
        end_label == alloc_label(true_label.ctx, "or_end")
        v1 == flatten_expr(expr.left, end_label.ctx, node \o <<1>>)
        c1 == append(v1.ctx, IrJumpIfNotZero(v1.val, true_label.name), node)
        v2 == flatten_expr(expr.right, c1, node \o <<2>>)
        right_bool == alloc_var(v2.ctx)
        c2 == append(right_bool.ctx,
                     IrBinary("NotEqual", v2.val, Constant(0), right_bool.name), node)
        c3 == append(c2, IrCopy(Variable(right_bool.name), result.name), node)
        c4 == append(c3, IrJump(end_label.name), node)
        c5 == append(c4, IrLabel(true_label.name), node)
        c6 == append(c5, IrCopy(Constant(1), result.name), node)
        c7 == append(c6, IrLabel(end_label.name), node)
    IN  [val |-> Variable(result.name), ctx |-> c7]

\* A plausible slip: the right operand is lowered before the left one.
flatten_binary_RightFirst(expr, ctx, node) ==
    LET v2 == flatten_expr(expr.right, ctx, node \o <<2>>)
        v1 == flatten_expr(expr.left, v2.ctx, node \o <<1>>)
        dst == alloc_var(v1.ctx)
    IN  [val |-> Variable(dst.name),
         ctx |-> append(dst.ctx,
                        IrBinary(convert_binary_op(expr.op), v1.val, v2.val, dst.name),
                        node)]

\* flatten_expr, the arm of the other binary operators (lines 249-262).
flatten_binary(expr, ctx, node) ==
    LET v1 == flatten_expr(expr.left, ctx, node \o <<1>>)
        v2 == flatten_expr(expr.right, v1.ctx, node \o <<2>>)
        dst == alloc_var(v2.ctx)
    IN  [val |-> Variable(dst.name),
         ctx |-> append(dst.ctx,
                        IrBinary(convert_binary_op(expr.op), v1.val, v2.val, dst.name),
                        node)]

\* flatten_expr (lines 126-284): the value of the expression and the context
\* after its instructions were appended.
flatten_expr(expr, ctx, node) ==
    CASE expr.kind = "Constant" -> [val |-> Constant(expr.val), ctx |-> ctx]
      [] expr.kind = "Unary" ->
            LET src == flatten_expr(expr.inner, ctx, node \o <<1>>)
                dst == alloc_var(src.ctx)
            IN  [val |-> Variable(dst.name),
                 ctx |-> append(dst.ctx,
                                IrUnary(convert_unary_op(expr.op), src.val, dst.name),
                                node)]
      [] expr.kind = "Binary" /\ expr.op = "LogicalAnd" -> flatten_and(expr, ctx, node)
      [] expr.kind = "Binary" /\ expr.op = "LogicalOr" -> flatten_or(expr, ctx, node)
      [] expr.kind = "Binary" /\ expr.op \notin {"LogicalAnd", "LogicalOr"} ->
            flatten_binary(expr, ctx, node)
      [] expr.kind = "Variable" -> [val |-> Variable(expr.name), ctx |-> ctx]
      [] expr.kind = "Assignment" ->
            IF expr.left.kind # "Variable"
            THEN [val |-> Constant(0), ctx |-> [ctx EXCEPT !.panicked = TRUE]]
            ELSE LET val == flatten_expr(expr.right, ctx, node \o <<2>>)
                 IN  [val |-> Variable(expr.left.name),
                      ctx |-> append(val.ctx, IrCopy(val.val, expr.left.name), node)]

\* flatten_declaration (lines 103-111)
flatten_declaration(decl, ctx, node) ==
    IF decl.init # <<>>
    THEN LET val == flatten_expr(decl.init[1], ctx, node)
         IN  append(val.ctx, IrCopy(val.val, decl.name), node)
    ELSE ctx

\* flatten_statement (lines 113-124)
flatten_statement(statement, ctx, node) ==
    CASE statement.item = "Return" ->
            LET result_val == flatten_expr(statement.expr, ctx, node)
            IN  append(result_val.ctx, IrReturn(result_val.val), node)
      [] statement.item = "Expression" -> flatten_expr(statement.expr, ctx, node).ctx
      [] statement.item = "Null" -> ctx

\* flatten_block_item (lines 96-101)
flatten_block_item(block, ctx, node) ==
    IF block.item = "Declare"
    THEN flatten_declaration(block, ctx, node)
    ELSE flatten_statement(block, ctx, node)

RECURSIVE FlattenBlocks(_, _, _)
\* flatten_function, lines 82-84: the loop over the block items, from item k on.
FlattenBlocks(blocks, k, ctx) ==
    IF k > Len(blocks) THEN ctx
    ELSE FlattenBlocks(blocks, k + 1, flatten_block_item(blocks[k], ctx, <<k>>))

\* A plausible slip: the fall-through Return is appended without looking at the
\* last instruction.
Epilogue_Always(ctx) == append(ctx, IrReturn(Constant(0)), <<>>)

\* flatten_function, lines 86-88: the fall-through Return.
Epilogue(ctx) ==
    IF ctx.instructions # <<>> /\ ctx.instructions[Len(ctx.instructions)].tag = "Return"
    THEN ctx
    ELSE append(ctx, IrReturn(Constant(0)), <<>>)

\* flatten_function (lines 79-94)
flatten_function(blocks) == Epilogue(FlattenBlocks(blocks, 1, ContextNew))

(***************************************************************************)
(* The inputs of irgen::flatten: resolved function bodies.  Either up to   *)
(* MaxItems block items over leaf expressions, or one statement over an    *)
(* expression of up to MaxOps operator nodes.                              *)
(***************************************************************************)
IrgenNames == {"a.0"}
\* The values a variable may hold when the TAC starts; zero comes from a variable
\* or from `!`, so the one literal is non-zero and not 1.
IrgenValues == {0, 2}
IrgenConstants == {2}
IrgenLeaves ==
    {ExprConstant(v) : v \in IrgenConstants} \cup {ExprVariable(n) : n \in IrgenNames}

RECURSIVE IrgenExprs(_)
\* The expressions with exactly n operator nodes.
IrgenExprs(n) ==
    IF n = 0 THEN IrgenLeaves
    ELSE {ExprUnary("LogicalNot", e) : e \in IrgenExprs(n - 1)}
         \cup {ExprAssignment(ExprVariable(x), e) : x \in IrgenNames, e \in IrgenExprs(n - 1)}
         \cup UNION {{ExprBinary(op, l, r) :
                        op \in {"LogicalAnd", "LogicalOr"},
                        l \in IrgenExprs(i), r \in IrgenExprs(n - 1 - i)} :
                     i \in 0..(n - 1)}

IrgenLeafItems ==
    {Declare(n, <<>>) : n \in IrgenNames}
    \cup {Declare(n, <<e>>) : n \in IrgenNames, e \in IrgenLeaves}
    \cup {StateReturn(e) : e \in IrgenLeaves}
    \cup {StateExpression(e) : e \in IrgenLeaves}
    \cup {StateNull}

IrgenBodies ==
    UNION {[1..n -> IrgenLeafItems] : n \in 0..MaxItems}
    \cup UNION {{<<StateReturn(e)>>, <<StateExpression(e)>>} :
                  e \in UNION {IrgenExprs(n) : n \in 1..MaxOps}}

(***************************************************************************)
(* The meaning of a TAC instruction, as generate_instruction lowers it to  *)
(* x86: what executing it does to the variables and to the position.       *)
(***************************************************************************)
\* The value of a TAC operand (map_src_operand: an immediate or the variable's slot).
ValueOf(v) == IF v.kind = "Constant" THEN v.val ELSE env[v.name]

\* cmp 0, src; sete / mov dst, src; neg / not
EvalUnary(op, a) ==
    CASE op = "Not" -> IF a = 0 THEN 1 ELSE 0
      [] op = "Negate" -> -a
      [] op = "Complement" -> BitNot(a)

\* cmp a, b; mov dst, 0; setcc dst
EvalRelational(op, a, b) ==
    LET holds == CASE op = "Equal" -> a = b
                   [] op = "NotEqual" -> a # b
                   [] op = "LessThan" -> a < b
                   [] op = "LessOrEqual" -> a <= b
                   [] op = "GreaterThan" -> a > b
                   [] op = "GreaterOrEqual" -> a >= b
    IN  IF holds THEN 1 ELSE 0

\* The index of the Label a jump goes to.
LabelIndex(target) == CHOOSE i \in 1..Len(tac) : tac[i] = IrLabel(target)

\* The AST node at a path below an expression.
RECURSIVE ExprAt(_, _)
ExprAt(expr, path) ==
    IF path = <<>> THEN expr
    ELSE CASE expr.kind = "Unary" -> ExprAt(expr.inner, Tail(path))
           [] expr.kind \in {"Binary", "Assignment"} ->
                ExprAt(IF Head(path) = 1 THEN expr.left ELSE expr.right, Tail(path))

\* The AST node an instruction was appended for.
NodeAt(node) == ExprAt(ItemExpr(body[Head(node)])[1], Tail(node))

\* Whether the instruction at index i was appended by the && or || arm.
IsShortCircuit(i) ==
    /\ origin[i] # <<>>
    /\ ItemExpr(body[Head(origin[i])]) # <<>>
    /\ NodeAt(origin[i]).kind = "Binary"
    /\ NodeAt(origin[i]).op \in {"LogicalAnd", "LogicalOr"}

\* The record of an operand value a short-circuit node's TAC has tested.
Tested(i, side, value) ==
    IF IsShortCircuit(i) THEN (<<origin[i], side>> :> value) @@ tested ELSE tested

InitIrgen ==
    /\ pc = "flatten"
    /\ body \in IrgenBodies
    /\ tac = <<>>
    /\ origin = <<>>
    /\ instructions = <<>>
    /\ stack_map = <<>>
    /\ next_stack = 4
    /\ ip = 0
    /\ env \in [IrgenNames -> IrgenValues]
    /\ tested = <<>>
    /\ returned = <<>>
    /\ func_body = <<>>
    /\ variable_map = <<>>
    /\ counter = 0
    /\ resolved_body = <<>>
    /\ resolved = <<>>
    /\ tokens = <<>>
    /\ current = 0
    /\ block_items = <<>>
    /\ parsed = <<>>
    /\ missing = <<>>
    /\ source = <<>>
    /\ MainNotStarted
    /\ input = <<>>
    /\ lexed = <<>>

\* irgen::flatten (lines 74-77)
FlattenProgram ==
    /\ pc = "flatten"
    /\ LET ctx == flatten_function(body)
       IN  /\ tac' = ctx.instructions
           /\ origin' = ctx.origin
           /\ pc' = IF ctx.panicked THEN "panicked" ELSE "execute"
    /\ ip' = 1
    /\ UNCHANGED <<body, env, tested, returned, cgVars, rsVars, psVars, lxVars, mnVars>>

Executing(tag) == pc = "execute" /\ ip <= Len(tac) /\ tac[ip].tag = tag

\* mov eax, value; ret
ExecReturn ==
    /\ Executing("Return")
    /\ returned' = <<ValueOf(tac[ip].value)>>
    /\ pc' = "exited"
    /\ UNCHANGED <<tac, body, origin, ip, env, tested, cgVars, rsVars, psVars, lxVars, mnVars>>

ExecUnary ==
    /\ Executing("Unary")
    /\ env' = (tac[ip].dst :> EvalUnary(tac[ip].op, ValueOf(tac[ip].src))) @@ env
    /\ ip' = ip + 1
    /\ UNCHANGED <<pc, tac, body, origin, tested, returned, cgVars, rsVars, psVars, lxVars, mnVars>>

ExecBinary ==
    /\ Executing("Binary")
    /\ tac[ip].op \in IrRelational
    /\ env' = (tac[ip].dst :>
                 EvalRelational(tac[ip].op, ValueOf(tac[ip].src1), ValueOf(tac[ip].src2)))
              @@ env
    /\ tested' = Tested(ip, "r", ValueOf(tac[ip].src1))
    /\ ip' = ip + 1
    /\ UNCHANGED <<pc, tac, body, origin, returned, cgVars, rsVars, psVars, lxVars, mnVars>>

\* mov dst, src
ExecCopy ==
    /\ Executing("Copy")
    /\ env' = (tac[ip].dst :> ValueOf(tac[ip].src)) @@ env
    /\ ip' = ip + 1
    /\ UNCHANGED <<pc, tac, body, origin, tested, returned, cgVars, rsVars, psVars, lxVars, mnVars>>

\* jmp L
ExecJump ==
    /\ Executing("Jump")
    /\ ip' = LabelIndex(tac[ip].target)
    /\ UNCHANGED <<pc, tac, body, origin, env, tested, returned, cgVars, rsVars, psVars, lxVars, mnVars>>

\* cmp 0, condition; je L
ExecJumpIfZero ==
    /\ Executing("JumpIfZero")
    /\ ip' = IF ValueOf(tac[ip].condition) = 0 THEN LabelIndex(tac[ip].target) ELSE ip + 1
    /\ tested' = Tested(ip, "l", ValueOf(tac[ip].condition))
    /\ UNCHANGED <<pc, tac, body, origin, env, returned, cgVars, rsVars, psVars, lxVars, mnVars>>

\* cmp 0, condition; jne L
ExecJumpIfNotZero ==
    /\ Executing("JumpIfNotZero")
    /\ ip' = IF ValueOf(tac[ip].condition) # 0 THEN LabelIndex(tac[ip].target) ELSE ip + 1
    /\ tested' = Tested(ip, "l", ValueOf(tac[ip].condition))
    /\ UNCHANGED <<pc, tac, body, origin, env, returned, cgVars, rsVars, psVars, lxVars, mnVars>>

ExecLabel ==
    /\ Executing("Label")
    /\ ip' = ip + 1
    /\ UNCHANGED <<pc, tac, body, origin, env, tested, returned, cgVars, rsVars, psVars, lxVars, mnVars>>

NextIrgen ==
    \/ FlattenProgram
    \/ ExecReturn
    \/ ExecUnary
    \/ ExecBinary
    \/ ExecCopy
    \/ ExecJump
    \/ ExecJumpIfZero
    \/ ExecJumpIfNotZero
    \/ ExecLabel

SpecIrgen == InitIrgen /\ [][NextIrgen]_vars

(***************************************************************************)
(* Properties of the output of codegen::generate.                          *)
(***************************************************************************)
\* The instruction list once generate_function has returned.
Generated == pc = "generated"

\* Every operand of the instruction list, with the index of its instruction.
OperandsOf(insts) ==
    {ik \in (1..Len(insts)) \X (1..2) : ik[2] <= Len(Operands(insts[ik[1]]))}

\* The input as Phase A lowers it and as Phase B leaves it, recomputed from the input.
PhaseA == generate_instruction(tac)
PhaseB == FixPseudosLoop(PhaseA, 1, <<>>, 4).instructions

\* The distinct pseudo names of the function.
PseudoNames ==
    {Operands(PhaseA[ik[1]])[ik[2]].name :
        ik \in {jk \in OperandsOf(PhaseA) :
                    Operands(PhaseA[jk[1]])[jk[2]].kind = "Pseudo"}}

\* C1: once generate has returned, every operand of every instruction is an
\* Immediate, a Register or a Stack slot: no Pseudo operand is left.
C1_PseudoElimination ==
    Generated =>
        \A ik \in OperandsOf(instructions) :
            Operands(instructions[ik[1]])[ik[2]].kind \in {"Immediate", "Register", "Stack"}

\* C1's case: the lowered input named a pseudo in a SetCondition and generate returned.
C1_Witness ==
    /\ Generated
    /\ \E i \in 1..Len(PhaseA) :
          PhaseA[i].tag = "SetCondition" /\ PhaseA[i].dst.kind = "Pseudo"
    /\ \E i \in 1..Len(instructions) :
          instructions[i].tag = "SetCondition" /\ instructions[i].dst.kind = "Stack"

\* C2: in the output no Move, no Compare and no Binary other than Mul has a
\* Stack operand in both positions.
C2_NoMemoryToMemory ==
    Generated =>
        \A i \in 1..Len(instructions) :
            LET inst == instructions[i] IN
            (inst.tag \in {"Move", "Compare"} \/ (inst.tag = "Binary" /\ inst.op # "Mul"))
                => ~is_stack_to_stack(inst.dst, inst.src)

\* C2's case: after Phase B a Compare had two Stack operands, and the output
\* stages its source through R10.
C2_Witness ==
    /\ Generated
    /\ \E i \in 1..Len(PhaseB) :
          /\ PhaseB[i].tag = "Compare"
          /\ is_stack_to_stack(PhaseB[i].dst, PhaseB[i].src)
    /\ \E i \in 2..Len(instructions) :
          /\ instructions[i].tag = "Compare" /\ instructions[i].src = R10
          /\ instructions[i].dst.kind = "Stack"
          /\ instructions[i - 1].tag = "Move" /\ instructions[i - 1].dst = R10
          /\ instructions[i - 1].src.kind = "Stack"

\* C3: in the output no Binary with operator Mul has a Stack destination.
C3_NoMemoryMulDestination ==
    Generated =>
        \A i \in 1..Len(instructions) :
            (instructions[i].tag = "Binary" /\ instructions[i].op = "Mul")
                => instructions[i].dst.kind # "Stack"

\* C3's case: after Phase B a Mul had a Stack destination and a Stack source, and
\* the output multiplies in R11 and stores R11 back.
C3_Witness ==
    /\ Generated
    /\ \E i \in 1..Len(PhaseB) :
          /\ PhaseB[i].tag = "Binary" /\ PhaseB[i].op = "Mul"
          /\ is_stack_to_stack(PhaseB[i].dst, PhaseB[i].src)
    /\ \E i \in 2..(Len(instructions) - 1) :
          /\ instructions[i].tag = "Binary" /\ instructions[i].op = "Mul"
          /\ instructions[i].dst = R11
          /\ instructions[i - 1] = Move(R11, instructions[i + 1].dst)
          /\ instructions[i + 1].tag = "Move" /\ instructions[i + 1].src = R11
          /\ instructions[i + 1].dst.kind = "Stack"

\* C4: in the output every Sal or Sar has an Immediate or Register(CX) as its
\* source (count) operand.
C4_ShiftCount ==
    Generated =>
        \A i \in 1..Len(instructions) :
            (instructions[i].tag = "Binary" /\ instructions[i].op \in {"Sal", "Sar"})
                => (instructions[i].src.kind = "Immediate" \/ instructions[i].src = CX)

\* C4's case: a shift whose count was a variable was first rewritten by fix_binary
\* (count in R10) and then by fix_shifts (count in CX).
C4_Witness ==
    /\ Generated
    /\ \E i \in 1..Len(PhaseB) :
          /\ PhaseB[i].tag = "Binary" /\ PhaseB[i].op \in {"Sal", "Sar"}
          /\ is_stack_to_stack(PhaseB[i].dst, PhaseB[i].src)
    /\ \E i \in 3..Len(instructions) :
          /\ instructions[i].tag = "Binary" /\ instructions[i].op \in {"Sal", "Sar"}
          /\ instructions[i].src = CX
          /\ instructions[i - 1] = Move(CX, R10)
          /\ instructions[i - 2].tag = "Move" /\ instructions[i - 2].dst = R10

\* The constant divisors of the Divide and Modulo instructions of the input, in order.
ConstantDivisors ==
    LET at == {i \in 1..Len(tac) :
                  /\ tac[i].tag = "Binary" /\ tac[i].op \in {"Divide", "Modulo"}
                  /\ tac[i].src2.kind = "Constant"}
    IN  {<<Cardinality({j \in at : j <= i}), tac[i].src2.val>> : i \in at}

\* The Move R10 <- Imm; Division(R10) pairs of the output, in order.
StagedDivisors ==
    LET at == {i \in 2..Len(instructions) :
                  /\ instructions[i] = Division(R10)
                  /\ instructions[i - 1].tag = "Move" /\ instructions[i - 1].dst = R10
                  /\ instructions[i - 1].src.kind = "Immediate"}
    IN  {<<Cardinality({j \in at : j <= i}), instructions[i - 1].src.val>> : i \in at}

\* C5: in the output the operand of every Division is a Register or a Stack slot,
\* never an Immediate, and the constant divisors of the input are each emitted as
\* Move R10 <- Imm followed directly by Division(R10).
C5_DivisionDivisor ==
    Generated =>
        /\ \A i \in 1..Len(instructions) :
              instructions[i].tag = "Division"
                  => /\ instructions[i].operand.kind \in {"Register", "Stack"}
                     /\ instructions[i].operand.kind = "Register"
                          => /\ i > 1
                             /\ instructions[i].operand = R10
                             /\ instructions[i - 1].tag = "Move"
                             /\ instructions[i - 1].dst = R10
                             /\ instructions[i - 1].src.kind = "Immediate"
        /\ StagedDivisors = ConstantDivisors

\* C5's case: the input divides by a constant and generate returned.
C5_Witness ==
    /\ Generated
    /\ ConstantDivisors # {}
    /\ \E i \in 1..Len(tac) : tac[i].tag = "Binary" /\ tac[i].op = "Modulo"
                                /\ tac[i].src2.kind = "Constant"

\* Every Stack offset the instruction list uses.
StackOffsets(insts) ==
    {Operands(insts[ik[1]])[ik[2]].off :
        ik \in {jk \in OperandsOf(insts) : Operands(insts[jk[1]])[jk[2]].kind = "Stack"}}

\* C6: the output has exactly one AllocateStack, it is the first instruction, its
\* amount is the smallest multiple of 16 that is at least 4 times the number of
\* distinct pseudo names (0 when there are none), and no Stack offset exceeds it.
C6_StackAlignment ==
    Generated =>
        /\ Len(instructions) >= 1
        /\ {i \in 1..Len(instructions) : instructions[i].tag = "AllocateStack"} = {1}
        /\ LET amount == instructions[1].amount
               n == Cardinality(PseudoNames)
           IN  /\ amount >= 0
               /\ amount % 16 = 0
               /\ amount >= 4 * n
               /\ amount - 16 < 4 * n
               /\ \A o \in StackOffsets(instructions) : o <= amount

\* C6's case: a function with more than four pseudo names, whose frame needs a
\* second 16-byte block.
C6_Witness ==
    /\ Generated
    /\ Cardinality(PseudoNames) = 5
    /\ instructions[1] = AllocateStack(32)
    /\ 20 \in StackOffsets(instructions)

(***************************************************************************)
(* Properties of the TAC that irgen::flatten emits.                        *)
(***************************************************************************)
\* flatten has returned (execution of the TAC may be under way or over).
Flattened == pc \in {"execute", "exited"}

RECURSIVE ExprPaths(_)
\* The paths of the nodes of an expression.
ExprPaths(expr) ==
    {<<>>} \cup
    CASE expr.kind = "Unary" -> {<<1>> \o q : q \in ExprPaths(expr.inner)}
      [] expr.kind = "Binary" ->
            {<<1>> \o q : q \in ExprPaths(expr.left)}
            \cup {<<2>> \o q : q \in ExprPaths(expr.right)}
      [] expr.kind = "Assignment" -> {<<2>> \o q : q \in ExprPaths(expr.right)}
      [] OTHER -> {}

\* The nodes of the function body.
BodyNodes ==
    UNION {{<<k>> \o q : q \in ExprPaths(ItemExpr(body[k])[1])} :
             k \in {j \in 1..Len(body) : ItemExpr(body[j]) # <<>>}}

\* The && and || nodes of the function body, at any depth.
ShortCircuitNodes ==
    {n \in BodyNodes : NodeAt(n).kind = "Binary"
                         /\ NodeAt(n).op \in {"LogicalAnd", "LogicalOr"}}

IsPrefix(p, q) == Len(p) <= Len(q) /\ SubSeq(q, 1, Len(p)) = p

\* The instructions appended for a node itself, and for it or a node below it.
Own(n) == {i \in 1..Len(tac) : origin[i] = n}
DerivedFrom(n) == {i \in 1..Len(tac) : IsPrefix(n, origin[i])}

\* The index of the last instruction of a short-circuit node: its end Label.
EndIndex(n) == CHOOSE i \in Own(n) : \A j \in Own(n) : j <= i

\* The result variable of a short-circuit node: where its Copy instructions store.
ResultVar(n) == CHOOSE d \in {tac[i].dst : i \in {j \in Own(n) : tac[j].tag = "Copy"}} : TRUE

\* The TAC value that stands for a node once it is lowered.
OperandValue(n) ==
    LET e == NodeAt(n) IN
    CASE e.kind = "Constant" -> Constant(e.val)
      [] e.kind = "Variable" -> Variable(e.name)
      [] e.kind = "Assignment" -> Variable(e.left.name)
      [] e.kind = "Binary" /\ e.op \in {"LogicalAnd", "LogicalOr"} -> Variable(ResultVar(n))
      [] OTHER ->
            Variable(CHOOSE d \in {tac[i].dst : i \in {j \in Own(n) :
                                        tac[j].tag \in {"Unary", "Binary"}}} : TRUE)

\* Whether the tested value of the left operand leaves the result open.
LeftUndecided(n) ==
    IF NodeAt(n).op = "LogicalAnd" THEN tested[<<n, "l">>] # 0 ELSE tested[<<n, "l">>] = 0

\* C7: when the TAC of `l && r` has been executed, its result variable holds 1 if
\* the values of l and r were both non-zero and 0 otherwise; for `l || r`, 1 if the
\* value of l or of r was non-zero and 0 otherwise; and an instruction derived from
\* r is executed only when the value of l left the result open.
C7_ShortCircuitValue ==
    Flattened =>
        \A n \in ShortCircuitNodes :
            /\ (ip = EndIndex(n) + 1) =>
                  /\ <<n, "l">> \in DOMAIN tested
                  /\ (<<n, "r">> \in DOMAIN tested) <=> LeftUndecided(n)
                  /\ env[ResultVar(n)] \in {0, 1}
                  /\ env[ResultVar(n)] = 1 <=>
                        IF NodeAt(n).op = "LogicalAnd"
                        THEN tested[<<n, "l">>] # 0 /\ tested[<<n, "r">>] # 0
                        ELSE \/ tested[<<n, "l">>] # 0
                             \/ tested[<<n, "r">>] # 0
            /\ (pc = "execute" /\ ip \in DerivedFrom(n \o <<2>>)) =>
                  /\ <<n, "l">> \in DOMAIN tested
                  /\ LeftUndecided(n)

\* C7's case: `l && r` with an assignment in r was executed with both values
\* non-zero and not 1; the result is 1.
C7_Witness ==
    /\ Flattened
    /\ \E n \in ShortCircuitNodes :
          /\ NodeAt(n).op = "LogicalAnd"
          /\ NodeAt(n \o <<2>>).kind = "Assignment"
          /\ ip = EndIndex(n) + 1
          /\ <<n, "r">> \in DOMAIN tested
          /\ tested[<<n, "l">>] = 2 /\ tested[<<n, "r">>] = 2
          /\ env[ResultVar(n)] = 1

\* C8: for every `l && r` a JumpIfZero on the value of l comes after every
\* instruction derived from l and before every instruction derived from r, and the
\* one Label it targets comes after every instruction derived from r; the same for
\* `l || r` with JumpIfNotZero.
C8_ShortCircuitOrder ==
    Flattened =>
        \A n \in ShortCircuitNodes :
            LET jumps == {i \in Own(n) : tac[i].tag \in {"JumpIfZero", "JumpIfNotZero"}}
            IN  \E j \in jumps :
                  /\ jumps = {j}
                  /\ tac[j].tag = IF NodeAt(n).op = "LogicalAnd"
                                  THEN "JumpIfZero" ELSE "JumpIfNotZero"
                  /\ tac[j].condition = OperandValue(n \o <<1>>)
                  /\ \A i \in DerivedFrom(n \o <<1>>) : i < j
                  /\ \A i \in DerivedFrom(n \o <<2>>) : j < i
                  /\ \E t \in 1..Len(tac) :
                        /\ {i \in 1..Len(tac) : tac[i] = IrLabel(tac[j].target)} = {t}
                        /\ j < t
                        /\ \A i \in DerivedFrom(n \o <<2>>) : i < t

\* C8's case: an && whose right operand is an ||, so instructions (and another
\* conditional jump) are derived from r.
C8_Witness ==
    /\ Flattened
    /\ \E n \in ShortCircuitNodes :
          /\ NodeAt(n).op = "LogicalAnd"
          /\ n \o <<2>> \in ShortCircuitNodes
          /\ NodeAt(n \o <<2>>).op = "LogicalOr"
          /\ DerivedFrom(n \o <<2>>) # {}

\* The instructions the fall-through epilogue appended.
EpilogueReturns == {i \in 1..Len(tac) : origin[i] = <<>>}

\* C9: the list flatten returns is non-empty and ends in a Return; a single
\* Return(Constant(0)) is appended when the body emitted nothing or did not end in a
\* Return, and nothing is appended when it did.
C9_FallThroughReturn ==
    Flattened =>
        LET n == Len(tac)
            m == Len(tac) - Cardinality(EpilogueReturns)
        IN
        /\ n >= 1
        /\ tac[n].tag = "Return"
        /\ EpilogueReturns \subseteq {n}
        /\ \A i \in EpilogueReturns : tac[i] = IrReturn(Constant(0))
        /\ Cardinality({i \in 1..n : tac[i].tag = "Return"})
             = Cardinality({k \in 1..Len(body) : body[k].item = "Return"})
               + Cardinality(EpilogueReturns)
        /\ EpilogueReturns # {} <=> (m = 0 \/ tac[m].tag # "Return")

\* C9's case: the body ends with the end Label of a short-circuit expression and
\* the Return(Constant(0)) follows it.
C9_Witness ==
    /\ Flattened
    /\ Len(tac) >= 2
    /\ tac[Len(tac) - 1].tag = "Label"
    /\ tac[Len(tac)] = IrReturn(Constant(0))
    /\ EpilogueReturns = {Len(tac)}

(***************************************************************************)
(* resolve.rs: variable resolution.  A Result is a record with `ok` and    *)
(* either `val` or `err`; an Option is a sequence of length at most one.   *)
(***************************************************************************)
Ok(v) == [ok |-> TRUE, val |-> v]
Err(msg) == [ok |-> FALSE, err |-> msg]

AstFunction(name, blocks) == [name |-> name, body |-> blocks]
AstProgram(function) == [function |-> function]

\* Context::new (lines 11-16)
ResolveContextNew == [variable_map |-> <<>>, counter |-> 0]

\* A variant of make_temporary that hands out one fixed name.
make_temporary_Fixed(ctx, name) == [unique |-> "v.0", ctx |-> ctx]

\* Context::make_temporary (lines 19-23): format!("{}.{}", name, self.counter)
make_temporary(ctx, name) ==
    [unique |-> name \o "." \o ToString(ctx.counter),
     ctx |-> [ctx EXCEPT !.counter = @ + 1]]

RECURSIVE resolve_exp(_, _)

\* A variant of the Variable arm that passes an unmapped name through.
resolve_exp_Variable_PassThrough(expr, ctx) ==
    IF expr.name \in DOMAIN ctx.variable_map
    THEN Ok(ExprVariable(ctx.variable_map[expr.name]))
    ELSE Ok(ExprVariable(expr.name))

\* resolve_exp, the Variable arm (lines 97-100)
resolve_exp_Variable(expr, ctx) ==
    IF expr.name \in DOMAIN ctx.variable_map
    THEN Ok(ExprVariable(ctx.variable_map[expr.name]))
    ELSE Err("Undeclared variable: '" \o expr.name \o "'")

\* A variant of the Assignment arm that tests the target after resolving the operands.
resolve_exp_Assignment_LateCheck(expr, ctx) ==
    LET resolved_left == resolve_exp(expr.left, ctx) IN
    IF ~resolved_left.ok THEN resolved_left
    ELSE LET resolved_right == resolve_exp(expr.right, ctx) IN
         IF ~resolved_right.ok THEN resolved_right
         ELSE IF expr.left.kind # "Variable"
              THEN Err("Invalid lvalue in assignment")
              ELSE Ok(ExprAssignment(resolved_left.val, resolved_right.val))

\* resolve_exp, the Assignment arm (lines 102-113)
resolve_exp_Assignment(expr, ctx) ==
    IF expr.left.kind # "Variable"
    THEN Err("Invalid lvalue in assignment")
    ELSE LET resolved_left == resolve_exp(expr.left, ctx) IN
         IF ~resolved_left.ok THEN resolved_left
         ELSE LET resolved_right == resolve_exp(expr.right, ctx) IN
              IF ~resolved_right.ok THEN resolved_right
              ELSE Ok(ExprAssignment(resolved_left.val, resolved_right.val))

\* resolve_exp (lines 93-130)
resolve_exp(expr, ctx) ==
    CASE expr.kind = "Constant" -> Ok(ExprConstant(expr.val))
      [] expr.kind = "Variable" -> resolve_exp_Variable(expr, ctx)
      [] expr.kind = "Assignment" -> resolve_exp_Assignment(expr, ctx)
      [] expr.kind = "Unary" ->
            LET inner == resolve_exp(expr.inner, ctx) IN
            IF ~inner.ok THEN inner ELSE Ok(ExprUnary(expr.op, inner.val))
      [] expr.kind = "Binary" ->
            LET resolved_left == resolve_exp(expr.left, ctx) IN
            IF ~resolved_left.ok THEN resolved_left
            ELSE LET resolved_right == resolve_exp(expr.right, ctx) IN
                 IF ~resolved_right.ok THEN resolved_right
                 ELSE Ok(ExprBinary(expr.op, resolved_left.val, resolved_right.val))

\* A variant of resolve_declaration without the test for an earlier declaration.
resolve_declaration_NoDuplicateTest(decl, ctx) ==
    LET made == make_temporary(ctx, decl.name)
        inserted == [made.ctx EXCEPT
                        !.variable_map = (decl.name :> made.unique) @@ @]
    IN  IF decl.init = <<>>
        THEN [res |-> Ok(Declare(made.unique, <<>>)), ctx |-> inserted]
        ELSE LET init == resolve_exp(decl.init[1], inserted) IN
             IF ~init.ok
             THEN [res |-> init, ctx |-> inserted]
             ELSE [res |-> Ok(Declare(made.unique, <<init.val>>)),
                   ctx |-> inserted]

\* A variant of resolve_declaration that resolves the initializer before it
\* installs the mapping of the declared name.
resolve_declaration_InitFirst(decl, ctx) ==
    IF decl.name \in DOMAIN ctx.variable_map
    THEN [res |-> Err("Duplicate variable declaration: '" \o decl.name \o "'"),
          ctx |-> ctx]
    ELSE LET made == make_temporary(ctx, decl.name)
             inserted == [made.ctx EXCEPT
                             !.variable_map = (decl.name :> made.unique) @@ @]
         IN  IF decl.init = <<>>
             THEN [res |-> Ok(Declare(made.unique, <<>>)), ctx |-> inserted]
             ELSE LET init == resolve_exp(decl.init[1], made.ctx) IN
                  IF ~init.ok
                  THEN [res |-> init, ctx |-> inserted]
                  ELSE [res |-> Ok(Declare(made.unique, <<init.val>>)),
                        ctx |-> inserted]

\* resolve_declaration (lines 60-77); returns the Result and the Context it leaves.
resolve_declaration(decl, ctx) ==
    IF decl.name \in DOMAIN ctx.variable_map
    THEN [res |-> Err("Duplicate variable declaration: '" \o decl.name \o "'"),
          ctx |-> ctx]
    ELSE LET made == make_temporary(ctx, decl.name)
             inserted == [made.ctx EXCEPT
                             !.variable_map = (decl.name :> made.unique) @@ @]
         IN  IF decl.init = <<>>
             THEN [res |-> Ok(Declare(made.unique, <<>>)), ctx |-> inserted]
             ELSE LET init == resolve_exp(decl.init[1], inserted) IN
                  IF ~init.ok
                  THEN [res |-> init, ctx |-> inserted]
                  ELSE [res |-> Ok(Declare(made.unique, <<init.val>>)),
                        ctx |-> inserted]

\* resolve_statement (lines 79-91)
resolve_statement(stmt, ctx) ==
    CASE stmt.item = "Return" ->
            LET e == resolve_exp(stmt.expr, ctx) IN
            IF ~e.ok THEN e ELSE Ok(StateReturn(e.val))
      [] stmt.item = "Expression" ->
            LET e == resolve_exp(stmt.expr, ctx) IN
            IF ~e.ok THEN e ELSE Ok(StateExpression(e.val))
      [] stmt.item = "Null" -> Ok(StateNull)

\* resolve_block_item (lines 47-58)
resolve_block_item(block, ctx) ==
    IF block.item = "Declare"
    THEN resolve_declaration(block, ctx)
    ELSE [res |-> resolve_statement(block, ctx), ctx |-> ctx]

(***************************************************************************)
(* The inputs of resolve: parsed function bodies of up to MaxBlocks block  *)
(* items over two source names, with declared, undeclared and redeclared   *)
(* names and valid and invalid assignment targets.                         *)
(***************************************************************************)
SourceNames == {"a", "b"}

SourceExprs ==
    {ExprConstant(2)}
    \cup {ExprVariable(x) : x \in SourceNames}
    \cup {ExprAssignment(ExprVariable(x), ExprConstant(2)) : x \in SourceNames}
    \cup {ExprAssignment(ExprConstant(2), ExprConstant(2))}
    \cup {ExprUnary("Negate", ExprVariable(x)) : x \in SourceNames}
    \cup {ExprBinary("Add", ExprVariable(x), ExprVariable(y)) :
            x \in SourceNames, y \in SourceNames}

SourceBlocks ==
    {Declare(x, <<>>) : x \in SourceNames}
    \cup {Declare(x, <<e>>) : x \in SourceNames, e \in SourceExprs}
    \cup {StateReturn(e) : e \in SourceExprs}
    \cup {StateExpression(e) : e \in SourceExprs}
    \cup {StateNull}

SourceBodies == UNION {[1..n -> SourceBlocks] : n \in 0..MaxBlocks}

(***************************************************************************)
(* resolve as a state machine: one action per iteration of the loop of     *)
(* resolve_function, by the kind of the block item, and one for its return.*)
(***************************************************************************)
InitResolve ==
    /\ pc = "resolve"
    /\ func_body \in SourceBodies
    /\ variable_map = ResolveContextNew.variable_map
    /\ counter = ResolveContextNew.counter
    /\ resolved_body = <<>>
    /\ resolved = <<>>
    /\ tokens = <<>>
    /\ current = 0
    /\ block_items = <<>>
    /\ parsed = <<>>
    /\ missing = <<>>
    /\ source = <<>>
    /\ MainNotStarted
    /\ input = <<>>
    /\ lexed = <<>>
    /\ tac = <<>>
    /\ instructions = <<>>
    /\ stack_map = <<>>
    /\ next_stack = 4
    /\ body = <<>>
    /\ origin = <<>>
    /\ ip = 0
    /\ env = <<>>
    /\ tested = <<>>
    /\ returned = <<>>

\* lines 36-39, one iteration: resolve_block_item(block, &mut ctx)?, then push.
ResolveBlock(block) ==
    LET r == resolve_block_item(block, [variable_map |-> variable_map,
                                        counter |-> counter])
    IN  /\ variable_map' = r.ctx.variable_map
        /\ counter' = r.ctx.counter
        /\ IF r.res.ok
           THEN /\ resolved_body' = Append(resolved_body, r.res.val)
                /\ UNCHANGED <<pc, resolved>>
           ELSE /\ pc' = "rejected"
                /\ resolved' = r.res
                /\ UNCHANGED resolved_body

\* The loop of resolve_function at a Block::Declare.
ResolveDeclare ==
    /\ pc = "resolve"
    /\ Len(resolved_body) < Len(func_body)
    /\ func_body[Len(resolved_body) + 1].item = "Declare"
    /\ ResolveBlock(func_body[Len(resolved_body) + 1])
    /\ UNCHANGED <<func_body, tac, cgVars, irVars, exVars, psVars, lxVars, mnVars>>

\* The loop of resolve_function at a Block::State.
ResolveState ==
    /\ pc = "resolve"
    /\ Len(resolved_body) < Len(func_body)
    /\ func_body[Len(resolved_body) + 1].item # "Declare"
    /\ ResolveBlock(func_body[Len(resolved_body) + 1])
    /\ UNCHANGED <<func_body, tac, cgVars, irVars, exVars, psVars, lxVars, mnVars>>

\* lines 41-44 and 28-29: the loop is over, resolve returns Ok.
ResolveOk ==
    /\ pc = "resolve"
    /\ Len(resolved_body) = Len(func_body)
    /\ resolved' = Ok(AstProgram(AstFunction("main", resolved_body)))
    /\ pc' = "resolved"
    /\ UNCHANGED <<func_body, variable_map, counter, resolved_body, tac, cgVars,
                   irVars, exVars, psVars, lxVars, mnVars>>

NextResolve ==
    \/ ResolveDeclare
    \/ ResolveState
    \/ ResolveOk

SpecResolve == InitResolve /\ [][NextResolve]_vars

(***************************************************************************)
(* Properties of the AST that resolve returns.                             *)
(***************************************************************************)
RECURSIVE VariableNames(_)
\* The names of the Variable nodes of an expression.
VariableNames(expr) ==
    CASE expr.kind = "Variable" -> {expr.name}
      [] expr.kind = "Unary" -> VariableNames(expr.inner)
      [] expr.kind \in {"Binary", "Assignment"} ->
            VariableNames(expr.left) \cup VariableNames(expr.right)
      [] OTHER -> {}

\* The names of the Variable nodes of a block item.
BlockVariableNames(block) ==
    IF ItemExpr(block) = <<>> THEN {} ELSE VariableNames(ItemExpr(block)[1])

\* The declarations of a function body, by position.
Declarations(blocks) == {k \in 1..Len(blocks) : blocks[k].item = "Declare"}

\* C10: when resolve succeeds, every declaration of the returned body carries its
\* source name followed by "." and a counter value, every Variable carries the name
\* of a declaration of the returned body, and no two declarations carry the same
\* name.
C10_ResolverUniqueness ==
    pc = "resolved" =>
        LET out == resolved.val.function.body IN
        /\ resolved.ok
        /\ Len(out) = Len(func_body)
        /\ \A k \in Declarations(out) :
              /\ func_body[k].item = "Declare"
              /\ \E c \in 0..(Len(func_body) - 1) :
                    out[k].name = func_body[k].name \o "." \o ToString(c)
        /\ \A k \in 1..Len(out) :
              \A n \in BlockVariableNames(out[k]) :
                 \E d \in Declarations(out) : out[d].name = n
        /\ \A j \in Declarations(out) :
              \A k \in Declarations(out) : j # k => out[j].name # out[k].name

\* C10's case: resolve succeeded on two declarations, the second initialised from
\* the first, and the Variable carries the first declaration's minted name.
C10_Witness ==
    /\ pc = "resolved"
    /\ resolved.ok
    /\ LET out == resolved.val.function.body IN
       /\ Len(out) = 2
       /\ Declarations(out) = {1, 2}
       /\ out[1].name = "a.0"
       /\ out[2].name = "b.1"
       /\ BlockVariableNames(out[2]) = {"a.0"}

\* resolve has returned, with Ok or with Err.
ResolveReturned == pc \in {"resolved", "rejected"}

\* The declarations of a name that an earlier declaration already declared.
Redeclarations(blocks) ==
    {k \in Declarations(blocks) :
        \E j \in Declarations(blocks) : j < k /\ blocks[j].name = blocks[k].name}

\* The source names declared by block item k or by one before it.
DeclaredUpTo(blocks, k) == {blocks[d].name : d \in {j \in Declarations(blocks) : j <= k}}

RECURSIVE HasInvalidLvalue(_)
\* Whether an expression holds an assignment whose target is not a Variable.
HasInvalidLvalue(expr) ==
    CASE expr.kind = "Assignment" ->
            expr.left.kind # "Variable" \/ HasInvalidLvalue(expr.right)
      [] expr.kind = "Unary" -> HasInvalidLvalue(expr.inner)
      [] expr.kind = "Binary" -> HasInvalidLvalue(expr.left) \/ HasInvalidLvalue(expr.right)
      [] OTHER -> FALSE

\* Block item k holds nothing that resolve rejects: it is no redeclaration, its
\* variables are declared by it or before it, and its assignments target variables.
ItemResolves(blocks, k) ==
    /\ k \notin Redeclarations(blocks)
    /\ BlockVariableNames(blocks[k]) \subseteq DeclaredUpTo(blocks, k)
    /\ ItemExpr(blocks[k]) # <<>> => ~HasInvalidLvalue(ItemExpr(blocks[k])[1])

DuplicateDeclaration(name) == Err("Duplicate variable declaration: '" \o name \o "'")
UndeclaredVariable(name) == Err("Undeclared variable: '" \o name \o "'")
InvalidLvalue == Err("Invalid lvalue in assignment")

\* C11 as stated: whenever the body declares a name that an earlier declaration
\* declared, resolve fails with the duplicate-declaration error.
C11_Original ==
    (ResolveReturned /\ Redeclarations(func_body) # {}) =>
        \E k \in Redeclarations(func_body) :
            resolved = DuplicateDeclaration(func_body[k].name)

\* C11, amended: whenever the body declares a name that an earlier declaration
\* declared, resolve fails and returns no AST; the error is the duplicate-declaration
\* error for the first such declaration when every block item before it resolves,
\* whether or not either declaration has an initializer.
C11_DuplicateDeclaration ==
    (ResolveReturned /\ Redeclarations(func_body) # {}) =>
        LET k == CHOOSE r \in Redeclarations(func_body) :
                    \A q \in Redeclarations(func_body) : r <= q
        IN  /\ ~resolved.ok
            /\ "val" \notin DOMAIN resolved
            /\ (\A j \in 1..(k - 1) : ItemResolves(func_body, j)) =>
                   resolved = DuplicateDeclaration(func_body[k].name)

\* C11's case: a declaration with an initializer redeclares a name declared without
\* one, and resolve returned the duplicate-declaration error.
C11_Witness ==
    /\ pc = "rejected"
    /\ Len(func_body) = 2
    /\ func_body[1] = Declare("a", <<>>)
    /\ func_body[2] = Declare("a", <<ExprConstant(2)>>)
    /\ resolved = DuplicateDeclaration("a")

\* The uses of a variable in block item k that no earlier block item declares.
UndeclaredBefore(blocks, k) ==
    BlockVariableNames(blocks[k]) \ DeclaredUpTo(blocks, k - 1)

\* C12 as stated: whenever an expression uses a name that no earlier block item
\* declares, resolve fails with the undeclared-variable error.
C12_Original ==
    (ResolveReturned /\ \E k \in 1..Len(func_body) : UndeclaredBefore(func_body, k) # {}) =>
        \E k \in 1..Len(func_body) :
            \E n \in UndeclaredBefore(func_body, k) : resolved = UndeclaredVariable(n)

\* C12, amended: whenever an expression uses a name that is declared neither by an
\* earlier block item nor by the declaration whose initializer holds the use,
\* resolve fails and returns no AST, also when a declaration of the name follows;
\* the error is the undeclared-variable error for such a name of the first such
\* block item when every block item before it resolves and that block item is no
\* redeclaration and has no assignment to a non-variable.
C12_UndeclaredVariable ==
    LET uses == {k \in 1..Len(func_body) :
                    ~(BlockVariableNames(func_body[k]) \subseteq DeclaredUpTo(func_body, k))}
    IN  (ResolveReturned /\ uses # {}) =>
            LET k == CHOOSE u \in uses : \A q \in uses : u <= q IN
            /\ ~resolved.ok
            /\ "val" \notin DOMAIN resolved
            /\ ( /\ \A j \in 1..(k - 1) : ItemResolves(func_body, j)
                 /\ k \notin Redeclarations(func_body)
                 /\ ~HasInvalidLvalue(ItemExpr(func_body[k])[1]) ) =>
                   \E n \in BlockVariableNames(func_body[k]) \ DeclaredUpTo(func_body, k) :
                       resolved = UndeclaredVariable(n)

\* C12's case: a variable is used before the only declaration of its name, which
\* comes later in the body, and resolve returned the undeclared-variable error.
C12_Witness ==
    /\ pc = "rejected"
    /\ Len(func_body) = 2
    /\ func_body[1] = StateExpression(ExprVariable("a"))
    /\ func_body[2] = Declare("a", <<>>)
    /\ resolved = UndeclaredVariable("a")

RECURSIVE Renamed(_, _)
\* An expression with each Variable's name replaced through a mapping of names.
Renamed(expr, names) ==
    CASE expr.kind = "Variable" -> ExprVariable(names[expr.name])
      [] expr.kind = "Unary" -> ExprUnary(expr.op, Renamed(expr.inner, names))
      [] expr.kind = "Binary" ->
            ExprBinary(expr.op, Renamed(expr.left, names), Renamed(expr.right, names))
      [] expr.kind = "Assignment" ->
            ExprAssignment(Renamed(expr.left, names), Renamed(expr.right, names))
      [] OTHER -> expr

\* For block item k of the source body, the name that the returned body gives to
\* each source name declared by item k or by one before it.
MintedUpTo(out, k) ==
    [n \in DeclaredUpTo(func_body, k) |->
        out[CHOOSE d \in Declarations(func_body) : d <= k /\ func_body[d].name = n].name]

\* C14: when resolve succeeds, the returned body has the block items of the input in
\* the same number and order, each with its variables renamed to the names minted
\* for the declarations at or before it; in a declaration `int x = e` every x
\* inside e carries the name minted for that declaration; and a body whose every
\* block item resolves, `int a = a;` included, is accepted.
C14_OrderAndInitializerScope ==
    /\ pc = "resolved" =>
          LET out == resolved.val.function.body IN
          /\ Len(out) = Len(func_body)
          /\ \A k \in 1..Len(out) :
                /\ out[k].item = func_body[k].item
                /\ ItemExpr(out[k]) = 
                      IF ItemExpr(func_body[k]) = <<>> THEN <<>>
                      ELSE <<Renamed(ItemExpr(func_body[k])[1], MintedUpTo(out, k))>>
                /\ (out[k].item = "Declare" /\ out[k].init # <<>>) =>
                      /\ MintedUpTo(out, k)[func_body[k].name] = out[k].name
                      /\ (func_body[k].name \in VariableNames(func_body[k].init[1]))
                            => out[k].name \in VariableNames(out[k].init[1])
    /\ (ResolveReturned /\ \A k \in 1..Len(func_body) : ItemResolves(func_body, k))
          => resolved.ok

\* C14's case: `int b; int a = a;` was accepted and the initializer of a carries the
\* name minted for a.
C14_Witness ==
    /\ pc = "resolved"
    /\ func_body = <<Declare("b", <<>>), Declare("a", <<ExprVariable("a")>>)>>
    /\ resolved.val.function.body
         = <<Declare("b.0", <<>>), Declare("a.1", <<ExprVariable("a.1")>>)>>

(***************************************************************************)
(* token.rs and parser.rs.  A Parser is a record of `tokens` and `current` *)
(* (a 0-based index); a method that takes &mut self returns its result     *)
(* together with the Parser it leaves.  The text of a Constant token is a  *)
(* sequence of characters, as its digits are read one by one.              *)
(***************************************************************************)
Tok(kind) == [tok |-> kind]
TokIdentifier(id) == [tok |-> "Identifier", text |-> id]
TokConstant(value) == [tok |-> "Constant", text |-> value]

\* Parser::new (lines 19-21)
ParserNew(toks) == [tokens |-> toks, current |-> 0]

\* Parser::peek (lines 23-25)
peek(p) == IF p.current < Len(p.tokens) THEN <<p.tokens[p.current + 1]>> ELSE <<>>

\* Parser::advance (lines 28-32)
advance(p) == [token |-> peek(p), parser |-> [p EXCEPT !.current = @ + 1]]

\* Parser::expect (lines 35-40)
expect(p, expected, error_msg) ==
    LET a == advance(p) IN
    [res |-> IF a.token = <<expected>> THEN Ok(<<>>) ELSE Err(error_msg),
     parser |-> a.parser]

\* A variant of precedence with the levels of `* / %` and `+ -` exchanged.
precedence_AdditiveFirst(token) ==
    CASE token.tok \in {"Star", "Slash", "Percent"} -> <<45>>
      [] token.tok \in {"Plus", "Minus"} -> <<50>>
      [] token.tok \in {"LessLess", "GreaterGreater"} -> <<40>>
      [] token.tok \in {"Less", "LessEqual", "Greater", "GreaterEqual"} -> <<35>>
      [] token.tok \in {"EqualEqual", "ExclaimEqual"} -> <<30>>
      [] token.tok = "Ampersand" -> <<25>>
      [] token.tok = "Caret" -> <<20>>
      [] token.tok = "Pipe" -> <<15>>
      [] token.tok = "AmpAmp" -> <<10>>
      [] token.tok = "PipePipe" -> <<5>>
      [] token.tok = "Equal" -> <<1>>
      [] OTHER -> <<>>

\* Parser::precedence (lines 42-57)
precedence(token) ==
    CASE token.tok \in {"Star", "Slash", "Percent"} -> <<50>>
      [] token.tok \in {"Plus", "Minus"} -> <<45>>
      [] token.tok \in {"LessLess", "GreaterGreater"} -> <<40>>
      [] token.tok \in {"Less", "LessEqual", "Greater", "GreaterEqual"} -> <<35>>
      [] token.tok \in {"EqualEqual", "ExclaimEqual"} -> <<30>>
      [] token.tok = "Ampersand" -> <<25>>
      [] token.tok = "Caret" -> <<20>>
      [] token.tok = "Pipe" -> <<15>>
      [] token.tok = "AmpAmp" -> <<10>>
      [] token.tok = "PipePipe" -> <<5>>
      [] token.tok = "Equal" -> <<1>>
      [] OTHER -> <<>>

\* Parser::is_binary_op (lines 59-82)
is_binary_op(token) ==
    token.tok \in {"Plus", "Minus", "Star", "Slash", "Percent", "Ampersand", "Pipe",
                   "Caret", "LessLess", "GreaterGreater", "AmpAmp", "PipePipe",
                   "EqualEqual", "ExclaimEqual", "Less", "LessEqual", "Greater",
                   "GreaterEqual", "Equal"}

\* The BinaryOperator that parse_binop gives for a token (lines 87-104).
BinopOf(token) ==
    CASE token.tok = "Plus" -> "Add"
      [] token.tok = "Minus" -> "Subtract"
      [] token.tok = "Star" -> "Multiply"
      [] token.tok = "Slash" -> "Divide"
      [] token.tok = "Percent" -> "Modulo"
      [] token.tok = "Ampersand" -> "BitwiseAnd"
      [] token.tok = "Pipe" -> "BitwiseOr"
      [] token.tok = "Caret" -> "BitwiseXor"
      [] token.tok = "LessLess" -> "LeftShift"
      [] token.tok = "GreaterGreater" -> "RightShift"
      [] token.tok = "AmpAmp" -> "LogicalAnd"
      [] token.tok = "PipePipe" -> "LogicalOr"
      [] token.tok = "EqualEqual" -> "Equal"
      [] token.tok = "ExclaimEqual" -> "NotEqual"
      [] token.tok = "Less" -> "LessThan"
      [] token.tok = "LessEqual" -> "LessOrEqual"
      [] token.tok = "Greater" -> "GreaterThan"
      [] token.tok = "GreaterEqual" -> "GreaterOrEqual"

\* Parser::parse_binop (lines 85-107)
parse_binop(p) ==
    LET a == advance(p) IN
    [res |-> IF a.token # <<>> /\ is_binary_op(a.token[1]) /\ a.token[1].tok # "Equal"
             THEN Ok(BinopOf(a.token[1]))
             ELSE Err("Expected binary operator"),
     parser |-> a.parser]

\* The largest i32.
I32Max == 2147483647

\* char::to_digit(10) of an ASCII digit.
DigitValue(ch) ==
    CASE ch = "0" -> 0 [] ch = "1" -> 1 [] ch = "2" -> 2 [] ch = "3" -> 3
      [] ch = "4" -> 4 [] ch = "5" -> 5 [] ch = "6" -> 6 [] ch = "7" -> 7
      [] ch = "8" -> 8 [] ch = "9" -> 9

RECURSIVE AccumulateDigits(_, _, _)
\* The digit loop of str::parse::<i32>: result = result.checked_mul(10)?
\* .checked_add(digit)?, from digit i on.
AccumulateDigits(value, i, result) ==
    IF i > Len(value) THEN Ok(result)
    ELSE IF result > (I32Max - DigitValue(value[i])) \div 10
         THEN Err("PosOverflow")
         ELSE AccumulateDigits(value, i + 1, result * 10 + DigitValue(value[i]))

RECURSIVE SaturateDigits(_, _, _)
\* A digit loop that saturates at the largest i32.
SaturateDigits(value, i, result) ==
    IF i > Len(value) THEN Ok(result)
    ELSE IF result > (I32Max - DigitValue(value[i])) \div 10
         THEN Ok(I32Max)
         ELSE SaturateDigits(value, i + 1, result * 10 + DigitValue(value[i]))

\* A variant of parse_i32 that saturates where the value does not fit.
parse_i32_Saturating(value) ==
    IF value = <<>> THEN Err("Empty") ELSE SaturateDigits(value, 1, 0)

\* value.parse::<i32>() (line 248) of a string of ASCII digits.
parse_i32(value) ==
    IF value = <<>> THEN Err("Empty") ELSE AccumulateDigits(value, 1, 0)

\* The string of a sequence of characters.
RECURSIVE StringOf(_)
StringOf(chars) == IF chars = <<>> THEN "" ELSE chars[1] \o StringOf(Tail(chars))

\* A variant of the right-hand side of `=` parsed one level above `=`.
assignment_rhs_min_prec_Plus1(token_prec) == token_prec + 1

\* parse_exp, line 229: the right-hand side of `=` is parsed at token_prec.
assignment_rhs_min_prec(token_prec) == token_prec

\* A variant of the right-hand side of a binary operator parsed at its own level.
binary_rhs_min_prec_Same(token_prec) == token_prec

\* parse_exp, line 233: the right-hand side of a binary operator is parsed at
\* token_prec + 1.
binary_rhs_min_prec(token_prec) == token_prec + 1

RECURSIVE parse_exp(_, _)
RECURSIVE parse_exp_loop(_, _, _)
RECURSIVE parse_factor(_)

\* The UnaryOperator of the arms of parse_factor at `~`, `-` and `!`.
UnopOf(token) ==
    CASE token.tok = "Tilde" -> "Complement"
      [] token.tok = "Minus" -> "Negate"
      [] token.tok = "Exclaim" -> "LogicalNot"

\* parse_factor, the arm of a unary operator (lines 264-280)
parse_factor_unary(p, op) ==
    LET inner_exp == parse_factor(advance(p).parser) IN
    IF ~inner_exp.res.ok THEN inner_exp
    ELSE [res |-> Ok(ExprUnary(op, inner_exp.res.val)), parser |-> inner_exp.parser]

\* parse_factor (lines 241-298)
parse_factor(p) ==
    LET t == peek(p) IN
    CASE t # <<>> /\ t[1].tok = "Constant" ->
            LET num == parse_i32(t[1].text) IN
            [res |-> IF num.ok THEN Ok(ExprConstant(num.val))
                     ELSE Err("Invalid number: " \o StringOf(t[1].text)),
             parser |-> advance(p).parser]
      [] t # <<>> /\ t[1].tok = "Identifier" ->
            [res |-> Ok(ExprVariable(t[1].text)), parser |-> advance(p).parser]
      [] t # <<>> /\ t[1].tok \in {"Tilde", "Minus", "Exclaim"} ->
            parse_factor_unary(p, UnopOf(t[1]))
      [] t # <<>> /\ t[1].tok = "OpenParen" ->
            LET inner_exp == parse_exp(advance(p).parser, 0) IN
            IF ~inner_exp.res.ok THEN inner_exp
            ELSE LET a == advance(inner_exp.parser) IN
                 [res |-> IF a.token = <<Tok("CloseParen")>>
                          THEN Ok(inner_exp.res.val) ELSE Err("Expected ')'"),
                  parser |-> a.parser]
      [] OTHER -> [res |-> Err("Expected number, unary operator, or '('"), parser |-> p]

\* parse_exp, the while loop (lines 213-236) with `left` as it stands: at `=` the
\* token is consumed and the right-hand side parsed (lines 227-230), at another
\* operator parse_binop consumes it (lines 231-235).
parse_exp_loop(p, left, min_prec) ==
    LET t == peek(p)
        done == [res |-> Ok(left), parser |-> p]
    IN  IF t = <<>> THEN done
        ELSE IF ~is_binary_op(t[1]) THEN done
        ELSE LET token_prec == precedence(t[1])[1]
                 is_assignment == t[1] = Tok("Equal")
             IN
             IF token_prec < min_prec THEN done
             ELSE LET operator == IF is_assignment
                                  THEN [res |-> Ok("="), parser |-> advance(p).parser]
                                  ELSE parse_binop(p)
                  IN
                  IF ~operator.res.ok THEN operator
                  ELSE LET right == parse_exp(operator.parser,
                                        IF is_assignment
                                        THEN assignment_rhs_min_prec(token_prec)
                                        ELSE binary_rhs_min_prec(token_prec))
                       IN  IF ~right.res.ok THEN right
                           ELSE parse_exp_loop(right.parser,
                                    IF is_assignment
                                    THEN ExprAssignment(left, right.res.val)
                                    ELSE ExprBinary(operator.res.val, left, right.res.val),
                                    min_prec)

\* parse_exp (lines 210-239)
parse_exp(p, min_prec) ==
    LET left == parse_factor(p) IN
    IF ~left.res.ok THEN left ELSE parse_exp_loop(left.parser, left.res.val, min_prec)

\* parse_declaration (lines 163-185)
parse_declaration(p) ==
    LET e1 == expect(p, Tok("Int"), "Expected 'int' keyword") IN
    IF ~e1.res.ok THEN e1
    ELSE LET a == advance(e1.parser) IN
         IF a.token = <<>> \/ a.token[1].tok # "Identifier"
         THEN [res |-> Err("Expected variable name"), parser |-> a.parser]
         ELSE LET name == a.token[1].text
                  init == IF peek(a.parser) = <<Tok("Equal")>>
                          THEN parse_exp(advance(a.parser).parser, 0)
                          ELSE [res |-> Ok(<<>>), parser |-> a.parser]
              IN  IF ~init.res.ok THEN init
                  ELSE LET e2 == expect(init.parser, Tok("Semicolon"), "Expected ';'") IN
                       IF ~e2.res.ok THEN e2
                       ELSE [res |-> Ok(Declare(name,
                                        IF peek(a.parser) = <<Tok("Equal")>>
                                        THEN <<init.res.val>> ELSE <<>>)),
                             parser |-> e2.parser]

\* parse_statement (lines 187-208)
parse_statement(p) ==
    LET t == peek(p) IN
    IF t = <<Tok("Return")>>
    THEN LET exp == parse_exp(advance(p).parser, 0) IN
         IF ~exp.res.ok THEN exp
         ELSE LET e == expect(exp.parser, Tok("Semicolon"), "Expected ';'") IN
              IF ~e.res.ok THEN e
              ELSE [res |-> Ok(StateReturn(exp.res.val)), parser |-> e.parser]
    ELSE IF t = <<Tok("Semicolon")>>
    THEN [res |-> Ok(StateNull), parser |-> advance(p).parser]
    ELSE LET exp == parse_exp(p, 0) IN
         IF ~exp.res.ok THEN exp
         ELSE LET e == expect(exp.parser, Tok("Semicolon"), "Expected ';'") IN
              IF ~e.res.ok THEN e
              ELSE [res |-> Ok(StateExpression(exp.res.val)), parser |-> e.parser]

\* parse_block_item (lines 148-161)
parse_block_item(p) ==
    IF peek(p) = <<Tok("Int")>> THEN parse_declaration(p) ELSE parse_statement(p)

\* parse_function, lines 119-131: `int`, the function name, `(`, `void`, `)`, `{`.
parse_function_header(p) ==
    LET e1 == expect(p, Tok("Int"), "Expected 'int' keyword") IN
    IF ~e1.res.ok THEN e1
    ELSE LET a == advance(e1.parser) IN
         IF a.token = <<>> \/ a.token[1].tok # "Identifier"
         THEN [res |-> Err("Expected function name"), parser |-> a.parser]
         ELSE LET e2 == expect(a.parser, Tok("OpenParen"), "Expected '('") IN
              IF ~e2.res.ok THEN e2
              ELSE LET e3 == expect(e2.parser, Tok("Void"), "Expected 'void'") IN
                   IF ~e3.res.ok THEN e3
                   ELSE LET e4 == expect(e3.parser, Tok("CloseParen"), "Expected ')'") IN
                        IF ~e4.res.ok THEN e4
                        ELSE LET e5 == expect(e4.parser, Tok("OpenBrace"), "Expected '{'")
                             IN  IF ~e5.res.ok THEN e5
                                 ELSE [res |-> Ok(a.token[1].text), parser |-> e5.parser]

(***************************************************************************)
(* The inputs of parse: token sequences ending in EOF.  They are the       *)
(* function header, statements and the closing brace; the statements are   *)
(* one `return` of an expression with two binary operators, of a chain of  *)
(* assignments or of a constant, or up to MaxStatements short statements;  *)
(* and each of the latter, which all parse, with one punctuator left out.  *)
(***************************************************************************)
BinaryTokens ==
    {"Plus", "Minus", "Star", "Slash", "Percent", "Ampersand", "Pipe", "Caret",
     "LessLess", "GreaterGreater", "AmpAmp", "PipePipe", "EqualEqual", "ExclaimEqual",
     "Less", "LessEqual", "Greater", "GreaterEqual", "Equal"}

Punctuators == {"OpenParen", "CloseParen", "OpenBrace", "CloseBrace", "Semicolon"}

Header ==
    <<Tok("Int"), TokIdentifier("main"), Tok("OpenParen"), Tok("Void"),
      Tok("CloseParen"), Tok("OpenBrace")>>

Footer == <<Tok("CloseBrace"), Tok("EOF")>>

\* The operands of the expressions: a b c ..., or 1 2 3.
OperandNames == <<"a", "b", "c", "d", "e", "f">>
TokA == TokIdentifier("a")
TokB == TokIdentifier("b")
TokC == TokIdentifier("c")
Tok1 == TokConstant(<<"1">>)
Tok2 == TokConstant(<<"2">>)
Tok3 == TokConstant(<<"3">>)
OperandTriples == {<<TokA, TokB, TokC>>, <<Tok1, Tok2, Tok3>>}

\* x p y q z
TwoOperatorTokens ==
    {<<t[1], Tok(op1), t[2], Tok(op2), t[3]>> :
        t \in OperandTriples, op1 \in BinaryTokens, op2 \in BinaryTokens}

RECURSIVE ChainTokens(_, _)
\* The chain of n assignments that starts at operand i: x = y = ... = z
ChainTokens(i, n) ==
    IF n = 0 THEN <<TokIdentifier(OperandNames[i])>>
    ELSE <<TokIdentifier(OperandNames[i]), Tok("Equal")>> \o ChainTokens(i + 1, n - 1)

\* Digit strings at and around the largest i32.
ConstantTexts ==
    {<<"0">>, <<"7">>, <<"0", "0", "7">>,
     <<"2", "1", "4", "7", "4", "8", "3", "6", "4">>,
     <<"2", "1", "4", "7", "4", "8", "3", "6", "4", "6">>,
     <<"2", "1", "4", "7", "4", "8", "3", "6", "4", "7">>,
     <<"0", "2", "1", "4", "7", "4", "8", "3", "6", "4", "7">>,
     <<"2", "1", "4", "7", "4", "8", "3", "6", "4", "8">>,
     <<"2", "1", "4", "7", "4", "8", "3", "6", "5", "0">>,
     <<"3", "0", "0", "0", "0", "0", "0", "0", "0", "0">>,
     <<"4", "2", "9", "4", "9", "6", "7", "2", "9", "6">>,
     <<"4", "2", "9", "4", "9", "6", "7", "3", "0", "3">>,
     <<"2", "1", "4", "7", "4", "8", "3", "6", "4", "7", "0">>,
     <<"9", "9", "9", "9", "9", "9", "9", "9", "9", "9", "9", "9">>}

\* The expressions that hold a constant token c: as the whole expression, under a
\* unary operator, in parentheses, and in the right operand of a binary operator.
ConstantPatterns(c) ==
    {<<c>>,
     <<Tok("Minus"), c>>,
     <<Tok("Tilde"), Tok("OpenParen"), c, Tok("CloseParen")>>,
     <<Tok1, Tok("Plus"), Tok("Exclaim"), c>>}

ConstantTokens == UNION {ConstantPatterns(TokConstant(t)) : t \in ConstantTexts}

\* The expressions of the short statements.
ShortExprTokens ==
    {<<Tok2>>, <<TokA>>,
     <<TokA, Tok("Equal"), Tok2>>,
     <<Tok2, Tok("Equal"), Tok3>>,
     <<Tok("OpenParen"), TokA, Tok("Plus"), Tok2, Tok("CloseParen"), Tok("Star"), TokA>>}

ShortStatementTokens ==
    {<<Tok("Semicolon")>>,
     <<Tok("Int"), TokA, Tok("Semicolon")>>,
     <<Tok("Int"), TokB, Tok("Equal"), Tok2, Tok("Semicolon")>>,
     <<Tok("Return"), Tok2, Tok("Semicolon")>>,
     <<Tok("Return"), TokA, Tok("Semicolon")>>}
    \cup {e \o <<Tok("Semicolon")>> : e \in ShortExprTokens}

ProgramTokens(statements) == Header \o Flatten(statements) \o Footer

\* The token sequences of up to MaxStatements short statements.
ShortPrograms ==
    {ProgramTokens(ss) : ss \in UNION {[1..n -> ShortStatementTokens] : n \in 0..MaxStatements}}

\* The token sequences of one `return` of a longer expression.
ReturnPrograms ==
    {ProgramTokens(<<<<Tok("Return")>> \o e \o <<Tok("Semicolon")>>>>) :
        e \in TwoOperatorTokens \cup ConstantTokens
              \cup {ChainTokens(1, n) : n \in 1..MaxChain}}

\* A sequence without its element i.
Without(seq, i) == SubSeq(seq, 1, i - 1) \o SubSeq(seq, i + 1, Len(seq))

\* The positions of the punctuators of a token sequence.
PunctuatorPositions(toks) == {i \in 1..Len(toks) : toks[i].tok \in Punctuators}

(***************************************************************************)
(* parse as a state machine: the header of parse_function, one action per  *)
(* iteration of its loop by the kind of block item, and its end with the   *)
(* end of parse_program; then main hands the AST to resolve.               *)
(***************************************************************************)
InitParse ==
    /\ pc = "parse"
    /\ \E v \in ShortPrograms \cup ReturnPrograms :
          \/ tokens = v /\ missing = <<>>
          \/ /\ v \in ShortPrograms
             /\ \E i \in PunctuatorPositions(v) :
                   tokens = Without(v, i) /\ missing = <<v[i]>>
    /\ current = 0
    /\ block_items = <<>>
    /\ parsed = <<>>
    /\ source = <<>>
    /\ MainNotStarted
    /\ input = <<>>
    /\ lexed = <<>>
    /\ func_body = <<>>
    /\ variable_map = ResolveContextNew.variable_map
    /\ counter = ResolveContextNew.counter
    /\ resolved_body = <<>>
    /\ resolved = <<>>
    /\ tac = <<>>
    /\ instructions = <<>>
    /\ stack_map = <<>>
    /\ next_stack = 4
    /\ body = <<>>
    /\ origin = <<>>
    /\ ip = 0
    /\ env = <<>>
    /\ tested = <<>>
    /\ returned = <<>>

\* The Parser as the variables hold it.
ParserNow == [tokens |-> tokens, current |-> current]

\* parse_function, lines 119-131.
ParseFunctionHeader ==
    /\ pc = "parse"
    /\ \E h \in {parse_function_header(ParserNew(tokens))} :
       /\ current' = h.parser.current
       /\ IF h.res.ok
          THEN pc' = "parse_items" /\ UNCHANGED parsed
          ELSE pc' = "syntax_error" /\ parsed' = h.res
    /\ UNCHANGED <<tokens, block_items, missing, tac, cgVars, irVars, exVars, rsVars, lxVars, mnVars>>

\* lines 137-140, one iteration: parse_block_item()?, then push.
ParseBlockItem ==
    \E block_item \in {parse_block_item(ParserNow)} :
    /\ current' = block_item.parser.current
    /\ IF block_item.res.ok
       THEN /\ block_items' = Append(block_items, block_item.res.val)
            /\ UNCHANGED <<pc, parsed>>
       ELSE /\ pc' = "syntax_error"
            /\ parsed' = block_item.res
            /\ UNCHANGED block_items
    /\ UNCHANGED <<tokens, missing, tac, cgVars, irVars, exVars, rsVars, lxVars, mnVars>>

\* The loop of parse_function at a declaration.
ParseDeclaration ==
    /\ pc = "parse_items"
    /\ peek(ParserNow) # <<Tok("CloseBrace")>>
    /\ peek(ParserNow) = <<Tok("Int")>>
    /\ ParseBlockItem

\* The loop of parse_function at a statement.
ParseStatement ==
    /\ pc = "parse_items"
    /\ peek(ParserNow) # <<Tok("CloseBrace")>>
    /\ peek(ParserNow) # <<Tok("Int")>>
    /\ ParseBlockItem

\* lines 143-145 and 113-114: the loop is over at `}`; then EOF is expected.
ParseFunctionEnd ==
    /\ pc = "parse_items"
    /\ peek(ParserNow) = <<Tok("CloseBrace")>>
    /\ LET e1 == expect(ParserNow, Tok("CloseBrace"), "Expected '}'")
           e2 == expect(e1.parser, Tok("EOF"), "Expected end of file")
       IN  IF ~e1.res.ok
           THEN pc' = "syntax_error" /\ parsed' = e1.res /\ current' = e1.parser.current
           ELSE /\ current' = e2.parser.current
                /\ IF ~e2.res.ok
                   THEN pc' = "syntax_error" /\ parsed' = e2.res
                   ELSE /\ pc' = "parsed"
                        /\ parsed' = Ok(AstProgram(AstFunction(tokens[2].text, block_items)))
    /\ UNCHANGED <<tokens, block_items, missing, tac, cgVars, irVars, exVars, rsVars, lxVars, mnVars>>

\* main.rs, line 96: the parsed AST goes to resolve.
StartResolve ==
    /\ pc = "parsed"
    /\ pc' = "resolve"
    /\ func_body' = parsed.val.function.body
    /\ UNCHANGED <<variable_map, counter, resolved_body, resolved, tac, cgVars, irVars,
                   exVars, psVars, lxVars, mnVars>>

NextParse ==
    \/ ParseFunctionHeader
    \/ ParseDeclaration
    \/ ParseStatement
    \/ ParseFunctionEnd
    \/ StartResolve
    \/ ResolveDeclare
    \/ ResolveState
    \/ ResolveOk

SpecParse == InitParse /\ [][NextParse]_vars

(***************************************************************************)
(* Properties of parse, and of resolve on what parse yields.               *)
(***************************************************************************)
\* parse has returned, with Ok or with Err.
ParseReturned == parsed # <<>>

\* The token sequence of the function whose body is `return e;`.
ReturnOf(e) == ProgramTokens(<<<<Tok("Return")>> \o e \o <<Tok("Semicolon")>>>>)

\* The AST of the function whose body is `return e;`.
ReturnAst(e) == Ok(AstProgram(AstFunction("main", <<StateReturn(e)>>)))

\* The expression of an operand token of the inputs: a name, or 1, 2 or 3.
OperandExpr(token) ==
    IF token.tok = "Identifier" THEN ExprVariable(token.text)
    ELSE ExprConstant(DigitValue(token.text[1]))

\* The node of an operator token over two operands: Assignment for `=`, Binary of
\* the operator otherwise.
Node(op, left, right) ==
    IF op = "Equal" THEN ExprAssignment(left, right)
    ELSE ExprBinary(BinopOf(Tok(op)), left, right)

\* The level of an operator in the precedence table.
TableLevel(op) ==
    CASE op \in {"Star", "Slash", "Percent"} -> 50
      [] op \in {"Plus", "Minus"} -> 45
      [] op \in {"LessLess", "GreaterGreater"} -> 40
      [] op \in {"Less", "LessEqual", "Greater", "GreaterEqual"} -> 35
      [] op \in {"EqualEqual", "ExclaimEqual"} -> 30
      [] op = "Ampersand" -> 25
      [] op = "Caret" -> 20
      [] op = "Pipe" -> 15
      [] op = "AmpAmp" -> 10
      [] op = "PipePipe" -> 5
      [] op = "Equal" -> 1

\* An assignment whose target is not a Variable.
IsInvalidAssignment(expr) == expr.kind = "Assignment" /\ expr.left.kind # "Variable"

\* The token sequence is `return x p y q z;` of the inputs.
IsTwoOperatorReturn ==
    /\ Len(tokens) = Len(Header) + 7 + Len(Footer)
    /\ tokens[Len(Header) + 3].tok \in BinaryTokens
    /\ tokens[Len(Header) + 5].tok \in BinaryTokens
    /\ \A i \in {2, 4, 6} : tokens[Len(Header) + i].tok \in {"Identifier", "Constant"}
    /\ tokens = ReturnOf(SubSeq(tokens, Len(Header) + 2, Len(Header) + 6))

\* Its two operators and three operands.
FirstOp == tokens[Len(Header) + 3].tok
SecondOp == tokens[Len(Header) + 5].tok
OperandX == OperandExpr(tokens[Len(Header) + 2])
OperandY == OperandExpr(tokens[Len(Header) + 4])
OperandZ == OperandExpr(tokens[Len(Header) + 6])

C15_Precedence ==
    ParseReturned =>
        /\ IsTwoOperatorReturn =>
              /\ TableLevel(SecondOp) > TableLevel(FirstOp) =>
                    parsed = ReturnAst(Node(FirstOp, OperandX,
                                            Node(SecondOp, OperandY, OperandZ)))
              /\ TableLevel(FirstOp) > TableLevel(SecondOp) =>
                    parsed = ReturnAst(Node(SecondOp,
                                            Node(FirstOp, OperandX, OperandY), OperandZ))
        /\ tokens = ReturnOf(<<Tok1, Tok("Plus"), Tok2, Tok("Star"), Tok3>>) =>
              parsed = ReturnAst(ExprBinary("Add", ExprConstant(1),
                                    ExprBinary("Multiply", ExprConstant(2), ExprConstant(3))))
        /\ tokens = ReturnOf(<<Tok1, Tok("LessLess"), Tok2, Tok("Plus"), Tok3>>) =>
              parsed = ReturnAst(ExprBinary("LeftShift", ExprConstant(1),
                                    ExprBinary("Add", ExprConstant(2), ExprConstant(3))))

\* C15's case: `1 << 2 + 3` was parsed, with the sum as the right operand of the shift.
C15_Witness ==
    /\ ParseReturned
    /\ tokens = ReturnOf(<<Tok1, Tok("LessLess"), Tok2, Tok("Plus"), Tok3>>)
    /\ parsed.ok
    /\ parsed.val.function.body[1].expr.op = "LeftShift"
    /\ parsed.val.function.body[1].expr.right.op = "Add"

\* C16: for operators p and q other than `=` of the same level of the precedence
\* table, the same operator included, `x p y q z` parses to
\* Binary(q, Binary(p, x, y), z).
C16_LeftAssociativity ==
    ( /\ ParseReturned
      /\ IsTwoOperatorReturn
      /\ FirstOp # "Equal"
      /\ SecondOp # "Equal"
      /\ TableLevel(FirstOp) = TableLevel(SecondOp) ) =>
         parsed = ReturnAst(ExprBinary(BinopOf(Tok(SecondOp)),
                                ExprBinary(BinopOf(Tok(FirstOp)), OperandX, OperandY),
                                OperandZ))

\* C16's case: `a - b + c` was parsed, with the difference as the left operand of
\* the sum.
C16_Witness ==
    /\ ParseReturned
    /\ tokens = ReturnOf(<<TokA, Tok("Minus"), TokB, Tok("Plus"), TokC>>)
    /\ parsed = ReturnAst(ExprBinary("Add",
                             ExprBinary("Subtract", ExprVariable("a"), ExprVariable("b")),
                             ExprVariable("c")))

RECURSIVE ChainExpr(_, _)
\* The chain of n assignments from operand i on, grouped to the right.
ChainExpr(i, n) ==
    IF n = 0 THEN ExprVariable(OperandNames[i])
    ELSE ExprAssignment(ExprVariable(OperandNames[i]), ChainExpr(i + 1, n - 1))

\* C17: a chain of assignments `a = b = ... = z` parses to
\* Assignment(a, Assignment(b, ...)), for every length of the chain.
C17_AssignmentRightAssociativity ==
    ParseReturned =>
        \A n \in 1..MaxChain :
            tokens = ReturnOf(ChainTokens(1, n)) => parsed = ReturnAst(ChainExpr(1, n))

\* C17's case: the chain of MaxChain assignments was parsed; the value of the first
\* is an Assignment.
C17_Witness ==
    /\ ParseReturned
    /\ tokens = ReturnOf(ChainTokens(1, MaxChain))
    /\ parsed.ok
    /\ parsed.val.function.body[1].expr.kind = "Assignment"
    /\ parsed.val.function.body[1].expr.right.kind = "Assignment"

\* The text of a punctuator.
PunctuatorText(token) ==
    CASE token.tok = "OpenParen" -> "("
      [] token.tok = "CloseParen" -> ")"
      [] token.tok = "OpenBrace" -> "{"
      [] token.tok = "CloseBrace" -> "}"
      [] token.tok = "Semicolon" -> ";"

\* C18: when the token sequence is a valid program with one occurrence of a
\* punctuator left out, parse fails with the message that names that punctuator.
C18_MissingPunctuator ==
    (ParseReturned /\ missing # <<>>) =>
        parsed = Err("Expected '" \o PunctuatorText(missing[1]) \o "'")

\* A digit string without its leading zeros.
RECURSIVE StripZeros(_)
StripZeros(text) ==
    IF Len(text) > 1 /\ text[1] = "0" THEN StripZeros(Tail(text)) ELSE text

RECURSIVE DigitsGreater(_, _, _)
\* Whether, of two digit strings of one length, the first denotes the greater
\* value, from digit i on.
DigitsGreater(x, y, i) ==
    IF i > Len(x) THEN FALSE
    ELSE IF DigitValue(x[i]) # DigitValue(y[i]) THEN DigitValue(x[i]) > DigitValue(y[i])
    ELSE DigitsGreater(x, y, i + 1)

\* Whether a digit string denotes a value above 2147483647.
ExceedsI32(text) ==
    LET digits == StripZeros(text)
        limit == <<"2", "1", "4", "7", "4", "8", "3", "6", "4", "7">>
    IN  \/ Len(digits) > Len(limit)
        \/ Len(digits) = Len(limit) /\ DigitsGreater(digits, limit, 1)

RECURSIVE DigitsValue(_, _)
\* The value that the first n digits of a digit string denote.
DigitsValue(text, n) ==
    IF n = 0 THEN 0 ELSE 10 * DigitsValue(text, n - 1) + DigitValue(text[n])

\* The AST that parse gives for each of ConstantPatterns, given the expression of
\* the constant.
ConstantPatternAst(c, value) ==
    (<<c>> :> ReturnAst(value))
    @@ (<<Tok("Minus"), c>> :> ReturnAst(ExprUnary("Negate", value)))
    @@ (<<Tok("Tilde"), Tok("OpenParen"), c, Tok("CloseParen")>>
          :> ReturnAst(ExprUnary("Complement", value)))
    @@ (<<Tok1, Tok("Plus"), Tok("Exclaim"), c>>
          :> ReturnAst(ExprBinary("Add", ExprConstant(1), ExprUnary("LogicalNot", value))))

\* The constant tokens of the token sequence.
ConstantsOf(toks) == {toks[i] : i \in {j \in 1..Len(toks) : toks[j].tok = "Constant"}}

\* C20: where parse reads a constant token as a factor, a digit string that denotes
\* a value above 2147483647 makes parse fail with the invalid-number error and
\* yield no AST, and a digit string that denotes a value from 0 to 2147483647
\* gives Constant of that value.
C20_ConstantRange ==
    ParseReturned =>
        \A c \in ConstantsOf(tokens) :
           \A e \in ConstantPatterns(c) :
              tokens = ReturnOf(e) =>
                 IF ExceedsI32(c.text)
                 THEN /\ parsed = Err("Invalid number: " \o StringOf(c.text))
                      /\ "val" \notin DOMAIN parsed
                 ELSE parsed = ConstantPatternAst(
                                  c, ExprConstant(DigitsValue(c.text, Len(c.text))))[e]

\* C20's case: `return 2147483648;` was refused with the invalid-number error.
C20_Witness ==
    /\ ParseReturned
    /\ tokens = ReturnOf(<<TokConstant(<<"2", "1", "4", "7", "4", "8", "3", "6", "4", "8">>)>>)
    /\ parsed = Err("Invalid number: 2147483648")

(***************************************************************************)
(* lexer.rs.  A text is a sequence of characters, each a string of length  *)
(* one.  A regex of lex is an operator that gives m.end() of its match at  *)
(* the start of the text, or 0 where find gives None (no pattern of lex    *)
(* matches the empty text).  The character classes are the ASCII part of   *)
(* the classes of the regex crate.                                         *)
(***************************************************************************)
\* `\s` (without the vertical tab, which has no escape here)
Whitespace == {" ", "\t", "\n", "\r", "\f"}

\* `[0-9]`
Digits == {"0", "1", "2", "3", "4", "5", "6", "7", "8", "9"}

\* `[a-zA-Z_]`
IdentStart ==
    {"a", "b", "c", "d", "e", "f", "g", "h", "i", "j", "k", "l", "m", "n", "o", "p", "q",
     "r", "s", "t", "u", "v", "w", "x", "y", "z",
     "A", "B", "C", "D", "E", "F", "G", "H", "I", "J", "K", "L", "M", "N", "O", "P", "Q",
     "R", "S", "T", "U", "V", "W", "X", "Y", "Z", "_"}

\* `\w`
WordChars == IdentStart \cup Digits

RECURSIVE Run(_, _)
\* The number of leading characters of a text that are of a class.
Run(text, class) ==
    IF text = <<>> \/ text[1] \notin class THEN 0 ELSE 1 + Run(Tail(text), class)

\* `\b` behind the first n characters of a text: a word character on exactly one
\* side, the ends of the text counting as no word character.
WordBoundary(text, n) ==
    (n >= 1 /\ text[n] \in WordChars) # (n < Len(text) /\ text[n + 1] \in WordChars)

\* The end of the match of a greedy repetition that may end behind lo..hi
\* characters and is followed by `\b`: the longest that a `\b` follows.
LongestBounded(text, lo, hi) ==
    LET ends == {n \in lo..hi : WordBoundary(text, n)} IN
    IF ends = {} THEN 0 ELSE CHOOSE n \in ends : \A m \in ends : m <= n

\* `^\s+` (line 9)
whitespace(text) == Run(text, Whitespace)

\* `^int\b`, `^void\b`, `^return\b` (lines 10-12), given the word.
keyword(text, word) ==
    IF Len(text) >= Len(word) /\ SubSeq(text, 1, Len(word)) = word
       /\ WordBoundary(text, Len(word))
    THEN Len(word) ELSE 0

int_kw(text) == keyword(text, <<"i", "n", "t">>)
void_kw(text) == keyword(text, <<"v", "o", "i", "d">>)
return_kw(text) == keyword(text, <<"r", "e", "t", "u", "r", "n">>)

\* `^[a-zA-Z_]\w*\b` (line 14)
ident(text) ==
    IF text # <<>> /\ text[1] \in IdentStart
    THEN LongestBounded(text, 1, 1 + Run(Tail(text), WordChars))
    ELSE 0

\* A variant of number without the `\b`.
number_NoBoundary(text) == Run(text, Digits)

\* `^[0-9]+\b` (line 15)
number(text) == LongestBounded(text, 1, Run(text, Digits))

\* The two-character operators in the order lex tries them (lines 69-118).
Operators ==
    <<[text |-> <<"<", "<">>, token |-> "LessLess"],
      [text |-> <<">", ">">>, token |-> "GreaterGreater"],
      [text |-> <<"&", "&">>, token |-> "AmpAmp"],
      [text |-> <<"|", "|">>, token |-> "PipePipe"],
      [text |-> <<"=", "=">>, token |-> "EqualEqual"],
      [text |-> <<"!", "=">>, token |-> "ExclaimEqual"],
      [text |-> <<"<", "=">>, token |-> "LessEqual"],
      [text |-> <<">", "=">>, token |-> "GreaterEqual"],
      [text |-> <<"+", "+">>, token |-> "PlusPlus"],
      [text |-> <<"-", "-">>, token |-> "MinusMinus"]>>

\* The operators of Operators that the text starts with.
operator(text) ==
    {k \in 1..Len(Operators) :
        Len(text) >= 2 /\ SubSeq(text, 1, 2) = Operators[k].text}

\* The arms of `match ch` (lines 123-140): the token of a single character.
SingleCharacter ==
    [ch \in {"(", ")", "{", "}", ";", "~", "+", "-", "*", "/", "%", "&", "|", "^", "!",
             "<", ">", "="} |->
        CASE ch = "(" -> "OpenParen" [] ch = ")" -> "CloseParen"
          [] ch = "{" -> "OpenBrace" [] ch = "}" -> "CloseBrace"
          [] ch = ";" -> "Semicolon" [] ch = "~" -> "Tilde"
          [] ch = "+" -> "Plus" [] ch = "-" -> "Minus"
          [] ch = "*" -> "Star" [] ch = "/" -> "Slash"
          [] ch = "%" -> "Percent" [] ch = "&" -> "Ampersand"
          [] ch = "|" -> "Pipe" [] ch = "^" -> "Caret"
          [] ch = "!" -> "Exclaim" [] ch = "<" -> "Less"
          [] ch = ">" -> "Greater" [] ch = "=" -> "Equal"]

\* The arm that one iteration of the loop of lex takes on a non-empty input: the
\* first of its tests that succeeds, in the order of lines 34-141.
LexArm(text) ==
    IF whitespace(text) > 0 THEN "whitespace"
    ELSE IF int_kw(text) > 0 \/ void_kw(text) > 0 \/ return_kw(text) > 0 THEN "keyword"
    ELSE IF ident(text) > 0 THEN "ident"
    ELSE IF number(text) > 0 THEN "number"
    ELSE IF operator(text) # {} THEN "operator"
    ELSE IF text[1] \in DOMAIN SingleCharacter THEN "single"
    ELSE "unexpected"

\* &input[n..]
SliceFrom(text, n) == SubSeq(text, n + 1, Len(text))

\* The pieces of the source texts: whitespace, the keywords, a letter, a digit,
\* operators and a punctuator that also make up operators of two characters and
\* longer words, and a character of no pattern.
SourcePieces ==
    {<<" ">>, <<"i", "n", "t">>, <<"v", "o", "i", "d">>, <<"r", "e", "t", "u", "r", "n">>,
     <<"n">>, <<"1">>, <<"<">>, <<"=">>, <<"+">>, <<"!">>, <<";">>, <<"@">>}

\* The source texts of up to MaxSource pieces.
Sources ==
    {Flatten(pieces) : pieces \in UNION {[1..n -> SourcePieces] : n \in 0..MaxSource}}

(***************************************************************************)
(* lex as a state machine: one action per arm of an iteration of its loop, *)
(* and one for what follows the loop.                                      *)
(***************************************************************************)
InitLex ==
    /\ pc = "lex"
    /\ source \in Sources
    /\ MainNotStarted
    /\ input = source
    /\ tokens = <<>>
    /\ lexed = <<>>
    /\ current = 0
    /\ block_items = <<>>
    /\ parsed = <<>>
    /\ missing = <<>>
    /\ func_body = <<>>
    /\ variable_map = ResolveContextNew.variable_map
    /\ counter = ResolveContextNew.counter
    /\ resolved_body = <<>>
    /\ resolved = <<>>
    /\ tac = <<>>
    /\ instructions = <<>>
    /\ stack_map = <<>>
    /\ next_stack = 4
    /\ body = <<>>
    /\ origin = <<>>
    /\ ip = 0
    /\ env = <<>>
    /\ tested = <<>>
    /\ returned = <<>>

\* An iteration of the loop (line 32) that takes the arm `arm`.
LexIteration(arm) == pc = "lex" /\ input # <<>> /\ LexArm(input) = arm

\* What a lex action leaves alone besides `input`, `tokens`, `lexed` and `pc`.
lexRest ==
    <<source, current, block_items, parsed, missing, tac, cgVars, irVars, exVars, rsVars,
      mnVars>>

\* lines 34-37
LexWhitespace ==
    /\ LexIteration("whitespace")
    /\ input' = SliceFrom(input, whitespace(input))
    /\ UNCHANGED <<pc, tokens, lexed, lexRest>>

\* lines 40-54
LexKeyword ==
    /\ LexIteration("keyword")
    /\ IF int_kw(input) > 0
       THEN /\ tokens' = Append(tokens, Tok("Int"))
            /\ input' = SliceFrom(input, int_kw(input))
       ELSE IF void_kw(input) > 0
       THEN /\ tokens' = Append(tokens, Tok("Void"))
            /\ input' = SliceFrom(input, void_kw(input))
       ELSE /\ tokens' = Append(tokens, Tok("Return"))
            /\ input' = SliceFrom(input, return_kw(input))
    /\ UNCHANGED <<pc, lexed, lexRest>>

\* lines 57-61
LexIdentifier ==
    /\ LexIteration("ident")
    /\ tokens' = Append(tokens, TokIdentifier(StringOf(SubSeq(input, 1, ident(input)))))
    /\ input' = SliceFrom(input, ident(input))
    /\ UNCHANGED <<pc, lexed, lexRest>>

\* lines 62-66
LexConstant ==
    /\ LexIteration("number")
    /\ tokens' = Append(tokens, TokConstant(SubSeq(input, 1, number(input))))
    /\ input' = SliceFrom(input, number(input))
    /\ UNCHANGED <<pc, lexed, lexRest>>

\* lines 69-118: the first operator of the list that matches
LexOperator ==
    /\ LexIteration("operator")
    /\ LET k == CHOOSE k \in operator(input) : \A j \in operator(input) : k <= j IN
       /\ tokens' = Append(tokens, Tok(Operators[k].token))
       /\ input' = SliceFrom(input, 2)
    /\ UNCHANGED <<pc, lexed, lexRest>>

\* lines 121-140 and 143
LexSingleCharacter ==
    /\ LexIteration("single")
    /\ tokens' = Append(tokens, Tok(SingleCharacter[input[1]]))
    /\ input' = SliceFrom(input, 1)
    /\ UNCHANGED <<pc, lexed, lexRest>>

\* line 141
LexUnexpectedCharacter ==
    /\ LexIteration("unexpected")
    /\ lexed' = Err("Unexpected character: '" \o input[1] \o "'")
    /\ pc' = "lex_error"
    /\ UNCHANGED <<input, tokens, lexRest>>

\* lines 146-148
LexEOF ==
    /\ pc = "lex"
    /\ input = <<>>
    /\ tokens' = Append(tokens, Tok("EOF"))
    /\ lexed' = Ok(tokens')
    /\ pc' = "lexed"
    /\ UNCHANGED <<input, lexRest>>

NextLex ==
    \/ LexWhitespace
    \/ LexKeyword
    \/ LexIdentifier
    \/ LexConstant
    \/ LexOperator
    \/ LexSingleCharacter
    \/ LexUnexpectedCharacter
    \/ LexEOF

SpecLex == InitLex /\ [][NextLex]_vars

(***************************************************************************)
(* Properties of lex.                                                      *)
(***************************************************************************)
\* lex has returned, with Ok or with Err.
LexReturned == lexed # <<>>

\* The characters that are a token by themselves, and the pairs that are one.
OneCharacterTokens ==
    {"(", ")", "{", "}", ";", "~", "+", "-", "*", "/", "%", "&", "|", "^", "!", "<", ">",
     "="}
TwoCharacterTokens ==
    {<<"<", "<">>, <<">", ">">>, <<"&", "&">>, <<"|", "|">>, <<"=", "=">>, <<"!", "=">>,
     <<"<", "=">>, <<">", "=">>, <<"+", "+">>, <<"-", "-">>}

\* No pattern matches at the start of a non-empty text: its first character is no
\* whitespace, starts no word and is no operator or punctuator, and if it is a
\* digit, a letter or `_` follows the digits.
NoPatternAt(text) ==
    /\ text[1] \notin Whitespace \cup IdentStart \cup OneCharacterTokens
    /\ text[1] \in Digits =>
          LET n == Run(text, Digits) IN n < Len(text) /\ text[n + 1] \in IdentStart

\* The length of what matches at the start of a text where a pattern matches: the
\* whitespace, the word, the digits, or an operator of two characters or of one.
PatternLength(text) ==
    IF text[1] \in Whitespace THEN Run(text, Whitespace)
    ELSE IF text[1] \in IdentStart THEN Run(text, WordChars)
    ELSE IF text[1] \in Digits THEN Run(text, Digits)
    ELSE IF Len(text) >= 2 /\ <<text[1], text[2]>> \in TwoCharacterTokens THEN 2
    ELSE 1

RECURSIVE FirstUnmatched(_)
\* The first character of a text at which no pattern matches, reading the text
\* pattern by pattern from its start; <<>> if there is none.
FirstUnmatched(text) ==
    IF text = <<>> THEN <<>>
    ELSE IF NoPatternAt(text) THEN <<text[1]>>
    ELSE FirstUnmatched(SubSeq(text, PatternLength(text) + 1, Len(text)))

\* C19: for every source text, when lex has returned, either it returned a token
\* sequence whose last token is EOF and that holds EOF nowhere else (exactly [EOF]
\* for the empty source), and a pattern matched all along the text; or it returned
\* the unexpected-character error that names the first character at which no
\* pattern matches, and no token sequence.
C19_LexResult ==
    LexReturned =>
        LET unmatched == FirstUnmatched(source) IN
        IF unmatched = <<>>
        THEN /\ lexed.ok
             /\ lexed.val[Len(lexed.val)] = Tok("EOF")
             /\ \A k \in 1..(Len(lexed.val) - 1) : lexed.val[k] # Tok("EOF")
             /\ source = <<>> => lexed.val = <<Tok("EOF")>>
        ELSE lexed = Err("Unexpected character: '" \o unmatched[1] \o "'")

\* lex returned the error naming `1` for the source `=1n`, a digit before a letter,
\* after it had pushed the token of `=`.
C19_Witness ==
    /\ LexReturned
    /\ source = <<"=", "1", "n">>
    /\ tokens = <<Tok("Equal")>>
    /\ lexed = Err("Unexpected character: '1'")

(***************************************************************************)
(* main.rs: the driver.  The outcome of a pass that returns a Result, and  *)
(* of an external command, is an input of the driver; flatten, generate    *)
(* and emit return plain values.  The file operations on the files the     *)
(* driver itself names are taken to succeed.  A process whose main returns *)
(* Ok ends with status 0, one whose main returns Err with status 1, and    *)
(* one that panics with status 101.                                        *)
(***************************************************************************)
\* The arguments main tells apart (lines 45-51): the stop flags and a path.
Arguments ==
    {"--lex", "--parse", "--validate", "--tacky", "--ir", "--codegen", "-S", "--emit",
     "source.c"}

\* The argument lists of up to MaxArgs arguments.
ArgumentLists == UNION {[1..n -> Arguments] : n \in 0..MaxArgs}

\* A stop flag of lines 34-39 after the loop of lines 43-53: set if one of its
\* spellings is among the arguments.
stop_after(spellings) == \E k \in 1..Len(args) : args[k] \in spellings

\* A variant of after_pass that goes on after an Err.
after_pass_IgnoresErr(ok, stop, next) == IF stop THEN "Ok" ELSE next

\* What main does after a pass (lines 74-83 and alike): return the Err, return Ok
\* at the pass's stop flag, or go on to the next step.
after_pass(ok, stop, next) == IF ~ok THEN "Err" ELSE IF stop THEN "Ok" ELSE next

\* The process ends with a status.
Exit(status) == pc' = "exited" /\ exit_status' = <<status>>

\* main calls a pass at step `at`; it returns `ok`; then lines 74-83 and alike.
Pass(at, ok, spellings, next) ==
    /\ pc = at
    /\ ran' = Append(ran, [pass |-> at, ok |-> ok])
    /\ LET to == after_pass(ok, stop_after(spellings), next) IN
       CASE to = "Err" -> Exit(1)
         [] to = "Ok" -> Exit(0)
         [] OTHER -> pc' = to /\ UNCHANGED exit_status
    /\ UNCHANGED <<args, files, commands, assembly_code, tac, cgVars, irVars, exVars,
                   rsVars, psVars, lxVars>>

\* main runs an external command.
RunCommand(program, outcome) ==
    commands' = Append(commands, [program |-> program, outcome |-> outcome])

\* What main leaves alone besides its own variables and pc.
mainRest == <<assembly_code, tac, cgVars, irVars, exVars, rsVars, psVars, lxVars>>

InitMain ==
    /\ pc = "main"
    /\ args \in ArgumentLists
    /\ ran = <<>>
    /\ files = {}
    /\ commands = <<>>
    /\ exit_status = <<>>
    /\ assembly_code = <<>>
    /\ source = <<>>
    /\ input = <<>>
    /\ lexed = <<>>
    /\ tokens = <<>>
    /\ current = 0
    /\ block_items = <<>>
    /\ parsed = <<>>
    /\ missing = <<>>
    /\ func_body = <<>>
    /\ variable_map = ResolveContextNew.variable_map
    /\ counter = ResolveContextNew.counter
    /\ resolved_body = <<>>
    /\ resolved = <<>>
    /\ tac = <<>>
    /\ instructions = <<>>
    /\ stack_map = <<>>
    /\ next_stack = 4
    /\ body = <<>>
    /\ origin = <<>>
    /\ ip = 0
    /\ env = <<>>
    /\ tested = <<>>
    /\ returned = <<>>

\* lines 26-53: no arguments is an error; otherwise the flags are set.
MainArguments ==
    /\ pc = "main"
    /\ IF args = <<>> THEN Exit(1) ELSE pc' = "preprocess" /\ UNCHANGED exit_status
    /\ UNCHANGED <<args, ran, files, commands, mainRest>>

\* lines 55-69: clang -E -P input -o <basename>.i
MainPreprocess ==
    /\ pc = "preprocess"
    /\ \E outcome \in {"success", "failure", "not run"} :
          /\ RunCommand("preprocessor", outcome)
          /\ CASE outcome = "success" ->
                    files' = files \cup {"i"} /\ pc' = "read" /\ UNCHANGED exit_status
               [] outcome = "failure" -> Exit(1) /\ UNCHANGED files
               [] outcome = "not run" -> Exit(101) /\ UNCHANGED files
    /\ UNCHANGED <<args, ran, mainRest>>

\* lines 71-72: the preprocessed text is read and its file removed.
MainReadSource ==
    /\ pc = "read"
    /\ files' = files \ {"i"}
    /\ pc' = "lex"
    /\ UNCHANGED <<args, ran, commands, exit_status, mainRest>>

\* lines 74-83
MainLex == \E ok \in BOOLEAN : Pass("lex", ok, {"--lex"}, "parse")

\* lines 85-94
MainParse == \E ok \in BOOLEAN : Pass("parse", ok, {"--parse"}, "resolve")

\* lines 96-105
MainResolve == \E ok \in BOOLEAN : Pass("resolve", ok, {"--validate"}, "flatten")

\* lines 107-113
MainFlatten == Pass("flatten", TRUE, {"--tacky", "--ir"}, "generate")

\* lines 115-121
MainGenerate == Pass("generate", TRUE, {"--codegen"}, "emit")

\* lines 123-129
MainEmit == Pass("emit", TRUE, {"-S", "--emit"}, "write")

\* lines 132-134: the assembly is written to <basename>.s
MainWriteAssembly ==
    /\ pc = "write"
    /\ files' = files \cup {"s"}
    /\ pc' = "assemble"
    /\ UNCHANGED <<args, ran, commands, exit_status, mainRest>>

\* lines 136-147: clang -target x86_64-apple-darwin <basename>.s -o <basename>
MainAssemble ==
    /\ pc = "assemble"
    /\ \E outcome \in {"success", "failure", "not run"} :
          /\ RunCommand("assembler", outcome)
          /\ CASE outcome = "success" ->
                    files' = files \cup {"exe"} /\ pc' = "remove" /\ UNCHANGED exit_status
               [] outcome = "failure" -> Exit(1) /\ UNCHANGED files
               [] outcome = "not run" -> Exit(101) /\ UNCHANGED files
    /\ UNCHANGED <<args, ran, mainRest>>

\* lines 149-151: the assembly file is removed and main returns Ok.
MainRemoveAssembly ==
    /\ pc = "remove"
    /\ files' = files \ {"s"}
    /\ Exit(0)
    /\ UNCHANGED <<args, ran, commands, mainRest>>

NextMain ==
    \/ MainArguments
    \/ MainPreprocess
    \/ MainReadSource
    \/ MainLex
    \/ MainParse
    \/ MainResolve
    \/ MainFlatten
    \/ MainGenerate
    \/ MainEmit
    \/ MainWriteAssembly
    \/ MainAssemble
    \/ MainRemoveAssembly

SpecMain == InitMain /\ [][NextMain]_vars

(***************************************************************************)
(* Properties of the driver.                                               *)
(***************************************************************************)
\* The passes in the order of the pipeline.
PassOrder == <<"lex", "parse", "resolve", "flatten", "generate", "emit">>

\* The assembler was run (with whatever outcome).
AssemblerInvoked == \E k \in 1..Len(commands) : commands[k].program = "assembler"

\* The process has ended.
Exited == pc = "exited"

\* C21: the passes main has called are, in order, the first passes of lex, parse,
\* resolve, flatten, generate, emit; and once a pass has failed it is the last
\* pass called, no assembly file exists, the assembler has not been run, and the
\* process has ended with a non-zero status.
C21_PassOrderAndFirstFailure ==
    /\ Len(ran) <= Len(PassOrder)
    /\ \A k \in 1..Len(ran) :
          /\ ran[k].pass = PassOrder[k]
          /\ ~ran[k].ok =>
                /\ k = Len(ran)
                /\ "s" \notin files
                /\ ~AssemblerInvoked
                /\ Exited
                /\ exit_status # <<0>>

\* lex and parse succeeded, resolve failed, and the process ended with status 1.
C21_Witness ==
    /\ ran = <<[pass |-> "lex", ok |-> TRUE], [pass |-> "parse", ok |-> TRUE],
               [pass |-> "resolve", ok |-> FALSE]>>
    /\ Exited
    /\ exit_status = <<1>>

\* No stop flag is among the arguments.
NoStopFlag ==
    ~stop_after({"--lex", "--parse", "--validate", "--tacky", "--ir", "--codegen", "-S",
                 "--emit"})

\* C22: in a run without a stop flag, when the process has ended after the
\* assembler was run (on the assembly written before), neither <basename>.i nor
\* <basename>.s exists, whatever the outcome of the assembler.
C22_IntermediateFilesRemoved ==
    (Exited /\ NoStopFlag /\ AssemblerInvoked) => files \cap {"i", "s"} = {}

(***************************************************************************)
(* emit.rs: the text of the assembly program, as a sequence of lines.  An  *)
(* operand an emit function has no arm for is written "unreachable".       *)
(***************************************************************************)
emit_operand(operand) ==
    CASE operand.kind = "Immediate" -> ToString(operand.val)
      [] operand.kind = "Register" ->
            (CASE operand.reg = "AX" -> "eax"
               [] operand.reg = "CX" -> "ecx"
               [] operand.reg = "DX" -> "edx"
               [] operand.reg = "R10" -> "r10d"
               [] operand.reg = "R11" -> "r11d")
      [] operand.kind = "Stack" -> "dword ptr [rbp - " \o ToString(operand.off) \o "]"
      [] operand.kind = "Pseudo" -> "unreachable"

emit_one_byte_operand(operand) ==
    CASE operand.kind = "Immediate" -> ToString(operand.val)
      [] operand.kind = "Register" ->
            (CASE operand.reg = "AX" -> "al"
               [] operand.reg = "CX" -> "cl"
               [] operand.reg = "DX" -> "dl"
               [] operand.reg = "R10" -> "r10b"
               [] operand.reg = "R11" -> "r11b")
      [] operand.kind = "Stack" -> "byte ptr [rbp - " \o ToString(operand.off) \o "]"
      [] operand.kind = "Pseudo" -> "unreachable"

emit_shift_count(operand) ==
    CASE operand.kind = "Immediate" -> ToString(operand.val)
      [] operand = CX -> "cl"
      [] OTHER -> "unreachable"

emit_condition(condition) ==
    CASE condition = "Equal" -> "e"
      [] condition = "NotEqual" -> "ne"
      [] condition = "Less" -> "l"
      [] condition = "LessEqual" -> "le"
      [] condition = "Greater" -> "g"
      [] condition = "GreaterEqual" -> "ge"
      [] OTHER -> "unreachable"

\* The mnemonic of a Unary or Binary instruction.
Mnemonic(inst) ==
    CASE inst.op = "Not" -> "not"
      [] inst.op = "Neg" -> "neg"
      [] inst.op = "Add" -> "add"
      [] inst.op = "Sub" -> "sub"
      [] inst.op = "Mul" -> "imul"
      [] inst.op = "And" -> "and"
      [] inst.op = "Or" -> "or"
      [] inst.op = "Xor" -> "xor"
      [] inst.op = "Sal" -> "sal"
      [] inst.op = "Sar" -> "sar"
      [] OTHER -> "unreachable"

\* The operand texts emit_instruction asks for, in the order of its format string.
EmittedOperands(inst) ==
    CASE inst.tag \in {"Move", "Compare"} -> <<emit_operand(inst.dst), emit_operand(inst.src)>>
      [] inst.tag = "Binary" ->
            <<emit_operand(inst.dst),
              IF inst.op \in {"Sal", "Sar"}
              THEN emit_shift_count(inst.src) ELSE emit_operand(inst.src)>>
      [] inst.tag \in {"Unary", "Division"} -> <<emit_operand(inst.operand)>>
      [] inst.tag = "SetCondition" -> <<emit_one_byte_operand(inst.dst)>>
      [] OTHER -> <<>>

\* emit_instruction (lines 27-118): the lines written for one instruction.
emit_instruction(inst) ==
    LET o == EmittedOperands(inst) IN
    CASE inst.tag = "Move" -> <<"\tmov " \o o[1] \o ", " \o o[2]>>
      [] inst.tag = "Return" -> <<"\t", "\tmov rsp, rbp", "\tpop rbp", "\tret">>
      [] inst.tag = "Unary" -> <<"\t" \o Mnemonic(inst) \o " " \o o[1]>>
      [] inst.tag = "AllocateStack" -> <<"\tsub rsp, " \o ToString(inst.amount), "">>
      [] inst.tag = "Binary" -> <<"\t" \o Mnemonic(inst) \o " " \o o[1] \o ", " \o o[2]>>
      [] inst.tag = "Division" -> <<"\tidiv " \o o[1]>>
      [] inst.tag = "ConvertDQ" -> <<"\tcdq">>
      [] inst.tag = "Compare" -> <<"\tcmp " \o o[1] \o ", " \o o[2]>>
      [] inst.tag = "Jump" -> <<"\tjmp L" \o inst.target>>
      [] inst.tag = "JumpCondition" ->
            <<"\tj" \o emit_condition(inst.cond) \o " L" \o inst.target>>
      [] inst.tag = "SetCondition" ->
            <<"\tset" \o emit_condition(inst.cond) \o " " \o o[1]>>
      [] inst.tag = "Label" -> <<"\t", "L" \o inst.name \o ":">>

\* emit, emit_program and emit_function (lines 4-25) for the function main: the
\* lines of the output, and whether an unreachable arm was met on the way.
emit(insts) ==
    [output |-> <<"\t.intel_syntax noprefix", "\t.globl _main", "_main:", "\tpush rbp",
                  "\tmov rbp, rsp">>
                \o Flatten([i \in 1..Len(insts) |-> emit_instruction(insts[i])]),
     panicked |-> \E i \in 1..Len(insts) :
                     \E k \in 1..Len(EmittedOperands(insts[i])) :
                        EmittedOperands(insts[i])[k] = "unreachable"]

(***************************************************************************)
(* main.rs, lines 96-123: resolve, flatten, generate, emit in a row on one       *)
(* function body.  The bodies are up to MaxDeclarations declarations, of   *)
(* the names tmp, a, b in this order, and one statement over an expression *)
(* of at most one operator.                                                *)
(***************************************************************************)
CompileNames == <<"tmp", "a", "b">>

CompileLeaves == {ExprConstant(2), ExprVariable("tmp"), ExprVariable("a")}

AstUnaryOperator == {"Complement", "Negate", "LogicalNot"}

AstBinaryOperator ==
    {"Add", "Subtract", "Multiply", "Divide", "Modulo", "BitwiseAnd", "BitwiseOr",
     "BitwiseXor", "LeftShift", "RightShift", "LogicalAnd", "LogicalOr", "Equal",
     "NotEqual", "LessThan", "LessOrEqual", "GreaterThan", "GreaterOrEqual"}

CompileExprs ==
    CompileLeaves
    \cup {ExprUnary(op, e) : op \in AstUnaryOperator, e \in CompileLeaves}
    \cup {ExprBinary(op, l, r) : op \in AstBinaryOperator, l \in CompileLeaves,
                                 r \in CompileLeaves}
    \cup {ExprAssignment(l, r) : l \in CompileLeaves, r \in CompileLeaves}

\* The declarations of the first n names, each with or without the initializer 2.
CompileDeclarations(n) ==
    {[k \in 1..n |-> Declare(CompileNames[k], init[k])] : init \in [1..n -> {<<>>, <<ExprConstant(2)>>}]}

CompileBodies ==
    {ds \o <<st>> :
        ds \in UNION {CompileDeclarations(n) : n \in 0..MaxDeclarations},
        st \in {StateReturn(e) : e \in CompileExprs}
               \cup {StateExpression(e) : e \in CompileExprs}}

InitCompile ==
    /\ pc = "resolve"
    /\ func_body \in CompileBodies
    /\ variable_map = ResolveContextNew.variable_map
    /\ counter = ResolveContextNew.counter
    /\ resolved_body = <<>>
    /\ resolved = <<>>
    /\ tac = <<>>
    /\ instructions = <<>>
    /\ stack_map = <<>>
    /\ next_stack = 4
    /\ body = <<>>
    /\ origin = <<>>
    /\ ip = 0
    /\ env = <<>>
    /\ tested = <<>>
    /\ returned = <<>>
    /\ tokens = <<>>
    /\ current = 0
    /\ block_items = <<>>
    /\ parsed = <<>>
    /\ missing = <<>>
    /\ source = <<>>
    /\ input = <<>>
    /\ lexed = <<>>
    /\ MainNotStarted

\* main.rs, line 107: the resolved AST goes to flatten.
StartFlatten ==
    /\ pc = "resolved"
    /\ body' = resolved.val.function.body
    /\ pc' = "flatten"
    /\ UNCHANGED <<tac, origin, cgVars, exVars, rsVars, psVars, lxVars, mnVars>>

\* main.rs, line 115: the TAC goes to generate.
StartGenerate ==
    /\ pc = "execute"
    /\ pc' = "generate"
    /\ UNCHANGED <<tac, cgVars, irVars, exVars, rsVars, psVars, lxVars, mnVars>>

\* main.rs, line 123: let assembly_code = emit(assembly)
EmitProgram ==
    /\ pc = "generated"
    /\ \E r \in {emit(instructions)} :
          /\ assembly_code' = r.output
          /\ pc' = IF r.panicked THEN "panicked" ELSE "emitted"
    /\ UNCHANGED <<args, ran, files, commands, exit_status, tac, cgVars, irVars, exVars,
                   rsVars, psVars, lxVars>>

NextCompile ==
    \/ ResolveDeclare
    \/ ResolveState
    \/ ResolveOk
    \/ StartFlatten
    \/ FlattenProgram
    \/ StartGenerate
    \/ GenerateInstruction
    \/ FixPseudos
    \/ FixMoves
    \/ FixDivImm
    \/ FixBinaries
    \/ FixShifts
    \/ FixMultiplies
    \/ FixCompares
    \/ InsertAllocateStack
    \/ EmitProgram

SpecCompile == InitCompile /\ [][NextCompile]_vars

(***************************************************************************)
(* Properties of the names across resolve, flatten and generate.           *)
(***************************************************************************)
\* The names resolve minted for the source variables of the function.
ResolverNames == {variable_map[x] : x \in DOMAIN variable_map}

\* The names alloc_var minted while the function was flattened.
TemporaryNames ==
    {"tmp." \o ToString(k) : k \in 0..(flatten_function(body).var_count - 1)}

\* flatten has returned for a body that resolve accepted.
CompileFlattened ==
    pc \in {"execute", "generate", "fix_pseudos", "fix_moves", "fix_div_imm",
            "fix_binary", "fix_shifts", "fix_multiply", "fix_compares", "allocate",
            "generated", "emitted"}

\* C23: for every program resolve accepts, once it is flattened no temporary of
\* the TAC generator has the name of a source variable as resolve renamed it, and
\* once code is generated no temporary has the stack slot of a source variable.
C23_TemporariesApartFromVariables ==
    CompileFlattened =>
        /\ TemporaryNames \cap ResolverNames = {}
        /\ pc = "generated" =>
              \A t \in TemporaryNames \cap DOMAIN stack_map :
                 \A v \in ResolverNames \cap DOMAIN stack_map :
                    stack_map[t] # stack_map[v]

(***************************************************************************)
(* Properties of the fixups of Phase C taken together.                     *)
(***************************************************************************)
\* The instruction list holds seq as a run of neighbours.
Occurs(seq, insts) ==
    \E k \in 0..(Len(insts) - Len(seq)) : SubSeq(insts, k + 1, k + Len(seq)) = seq

\* C24: no instruction is rewritten by more than one fixup: the output holds, for
\* every Binary(Mul, Stack d, Stack s) Phase B leaves, the run Move R11 <- d;
\* Binary(Mul, R11, Stack s); Move d <- R11, and for every Sal or Sar with a Stack
\* destination and a Stack count the run Move CX <- count; Binary(shift, d, CX).
C24_OneFixupPerInstruction ==
    Generated =>
        \A i \in 1..Len(PhaseB) :
            LET inst == PhaseB[i] IN
            (inst.tag = "Binary" /\ is_stack_to_stack(inst.dst, inst.src)) =>
                /\ inst.op = "Mul" =>
                      Occurs(<<Move(R11, inst.dst), AsmBinary("Mul", R11, inst.src),
                               Move(inst.dst, R11)>>, instructions)
                /\ inst.op \in {"Sal", "Sar"} =>
                      Occurs(<<Move(CX, inst.src), AsmBinary(inst.op, inst.dst, CX)>>,
                             instructions)

\* The operands an instruction reads and the operands it writes, as the x86
\* instruction emitted for it does.
Reads(inst) ==
    CASE inst.tag = "Move" -> {inst.src}
      [] inst.tag \in {"Binary", "Compare"} -> {inst.dst, inst.src}
      [] inst.tag \in {"Unary", "Division"} -> {inst.operand}
      [] OTHER -> {}

Writes(inst) ==
    CASE inst.tag \in {"Move", "Binary", "SetCondition"} -> {inst.dst}
      [] inst.tag = "Unary" -> {inst.operand}
      [] OTHER -> {}

ScratchRegisters == {R10, R11, CX}

\* Nothing from instruction j to instruction i, both left out, writes r or is a
\* Label, a Jump or a JumpCondition.
Undisturbed(r, j, i) ==
    \A k \in (j + 1)..(i - 1) :
        /\ r \notin Writes(instructions[k])
        /\ instructions[k].tag \notin {"Label", "Jump", "JumpCondition"}

\* C25: in the output every read of R10, R11 or CX has a write of that register
\* before it, and every write of one has a read of it after it, with no other write
\* of the register and no Label, Jump or JumpCondition between the two.
C25_ScratchRegistersNeverCollide ==
    Generated =>
        \A r \in ScratchRegisters :
            \A i \in 1..Len(instructions) :
                /\ r \in Reads(instructions[i]) =>
                      \E j \in 1..(i - 1) :
                          r \in Writes(instructions[j]) /\ Undisturbed(r, j, i)
                /\ r \in Writes(instructions[i]) =>
                      \E j \in (i + 1)..Len(instructions) :
                          r \in Reads(instructions[j]) /\ Undisturbed(r, i, j)

\* C25's case: a Mul of two Stack operands went through fix_binary and through
\* fix_multiply, so R10 and R11 are both live at the multiplication.
C25_Witness ==
    /\ Generated
    /\ \E i \in 1..Len(PhaseB) :
          /\ PhaseB[i].tag = "Binary" /\ PhaseB[i].op = "Mul"
          /\ is_stack_to_stack(PhaseB[i].dst, PhaseB[i].src)
          /\ Occurs(<<Move(R10, PhaseB[i].src), Move(R11, PhaseB[i].dst),
                      AsmBinary("Mul", R11, R10), Move(PhaseB[i].dst, R11)>>,
                    instructions)

(***************************************************************************)
(* Properties of the pseudo replacement of Phase B.                        *)
(***************************************************************************)
\* The Fix Pseudos loop has just run: `instructions` is what it left.
PseudosFixed == pc = "fix_moves"

\* Position ik comes no later than position jk in the order the loop visits them.
NoLater(ik, jk) == ik[1] < jk[1] \/ (ik[1] = jk[1] /\ ik[2] <= jk[2])

\* The first operand position of each pseudo name in the list insts.
FirstOccurrence(insts) ==
    LET at == {ik \in OperandsOf(insts) : Operands(insts[ik[1]])[ik[2]].kind = "Pseudo"}
        names == {Operands(insts[ik[1]])[ik[2]].name : ik \in at}
    IN  [n \in names |->
            CHOOSE ik \in at :
                /\ Operands(insts[ik[1]])[ik[2]].name = n
                /\ \A jk \in at : Operands(insts[jk[1]])[jk[2]].name = n => NoLater(ik, jk)]

\* C26: the pseudo replacement maps the k-th pseudo name, in order of first
\* occurrence (destination operand before source operand within an instruction), to
\* the offset 4k, so the map is one-to-one onto 4, 8, ..., 4n; every occurrence of a
\* name is replaced by the Stack slot of that name and every other operand is kept.
C26_PseudoReplacement ==
    PseudosFixed =>
        LET before == generate_instruction(tac)
            first == FirstOccurrence(before)
        IN  /\ DOMAIN stack_map = DOMAIN first
            /\ \A n \in DOMAIN first :
                  stack_map[n] =
                      4 * Cardinality({m \in DOMAIN first : NoLater(first[m], first[n])})
            /\ Len(instructions) = Len(before)
            /\ \A i \in 1..Len(before) :
                  /\ instructions[i].tag = before[i].tag
                  /\ \A k \in 1..Len(Operands(before[i])) :
                        LET op == Operands(before[i])[k] IN
                        Operands(instructions[i])[k] =
                            IF op.kind = "Pseudo" THEN Stack(stack_map[op.name]) ELSE op
            /\ next_stack = 4 * Cardinality(DOMAIN first) + 4

\* C26's case: the first instruction names two new pseudos, its destination gets
\* offset 4 and its source offset 8, and the destination occurs again later.
C26_Witness ==
    /\ PseudosFixed
    /\ Len(PhaseA) >= 2
    /\ PhaseA[1] = Move(Pseudo("tmp.0"), Pseudo("a.0"))
    /\ PhaseA[2].tag = "Binary" /\ PhaseA[2].dst = Pseudo("tmp.0")
    /\ stack_map["tmp.0"] = 4
    /\ stack_map["a.0"] = 8
    /\ instructions[2].dst = Stack(4)

(***************************************************************************)
(* Properties of the operand kinds of the output.                          *)
(***************************************************************************)
\* The operand of an instruction that the x86 instruction emitted for it writes or
\* that x86 takes in its first position: none for the other instructions.
FirstOperand(inst) ==
    CASE inst.tag \in {"Compare", "Move", "Binary", "SetCondition"} -> <<inst.dst>>
      [] inst.tag = "Unary" -> <<inst.operand>>
      [] OTHER -> <<>>

\* C29: in the output the first operand of every Compare, the destination of every
\* Move, the destination of every Binary, the operand of every Unary and the
\* destination of every SetCondition are never Immediate.
C29_NoImmediateDestination ==
    Generated =>
        \A i \in 1..Len(instructions) :
            \A k \in 1..Len(FirstOperand(instructions[i])) :
                FirstOperand(instructions[i])[k].kind # "Immediate"

\* C29's case: a comparison whose left operand is a constant; the output compares
\* R11, loaded with the constant by the instruction before.
C29_Witness ==
    /\ Generated
    /\ \E i \in 1..Len(tac) :
          /\ tac[i].tag = "Binary" /\ tac[i].op \in IrRelational
          /\ tac[i].src1.kind = "Constant"
    /\ \E i \in 2..Len(instructions) :
          /\ instructions[i].tag = "Compare" /\ instructions[i].dst = R11
          /\ instructions[i - 1] = Move(R11, Immediate(2))

(***************************************************************************)
(* irgen::flatten on the binary operators that are not short-circuit: one  *)
(* Return statement over a binary expression whose operands have up to     *)
(* MaxOperandOps operator nodes each.                                      *)
(***************************************************************************)
RECURSIVE FlattenExprs(_)
\* The operand expressions with exactly n operator nodes.
FlattenExprs(n) ==
    IF n = 0 THEN IrgenLeaves
    ELSE {ExprUnary("Negate", e) : e \in FlattenExprs(n - 1)}
         \cup {ExprAssignment(ExprVariable(x), e) : x \in IrgenNames, e \in FlattenExprs(n - 1)}
         \cup UNION {{ExprBinary(op, l, r) :
                        op \in {"Add", "LogicalOr"},
                        l \in FlattenExprs(i), r \in FlattenExprs(n - 1 - i)} :
                     i \in 0..(n - 1)}

FlattenOperands == UNION {FlattenExprs(n) : n \in 0..MaxOperandOps}

FlattenBodies ==
    {<<StateReturn(ExprBinary(op, l, r))>> :
        op \in {"Add", "LessThan"}, l \in FlattenOperands, r \in FlattenOperands}

InitFlatten ==
    /\ pc = "flatten"
    /\ body \in FlattenBodies
    /\ tac = <<>>
    /\ origin = <<>>
    /\ instructions = <<>>
    /\ stack_map = <<>>
    /\ next_stack = 4
    /\ ip = 0
    /\ env = <<>>
    /\ tested = <<>>
    /\ returned = <<>>
    /\ func_body = <<>>
    /\ variable_map = <<>>
    /\ counter = 0
    /\ resolved_body = <<>>
    /\ resolved = <<>>
    /\ tokens = <<>>
    /\ current = 0
    /\ block_items = <<>>
    /\ parsed = <<>>
    /\ missing = <<>>
    /\ source = <<>>
    /\ input = <<>>
    /\ lexed = <<>>
    /\ MainNotStarted

NextFlatten == FlattenProgram

SpecFlatten == InitFlatten /\ [][NextFlatten]_vars

\* The binary nodes of the function body whose operator is not && or ||.
PlainBinaryNodes ==
    {n \in BodyNodes : NodeAt(n).kind = "Binary"
                         /\ NodeAt(n).op \notin {"LogicalAnd", "LogicalOr"}}

\* The names alloc_var can have minted for the TAC, and the number in such a name.
IsTemporary(name) == \E k \in 0..Len(tac) : name = "tmp." \o ToString(k)
TemporaryIndex(name) == CHOOSE k \in 0..Len(tac) : name = "tmp." \o ToString(k)

\* The temporaries the instructions at the indices in `at` store to.
TemporariesStored(at) ==
    {tac[i].dst : i \in {j \in at : /\ tac[j].tag \in {"Unary", "Binary", "Copy"}
                                    /\ IsTemporary(tac[j].dst)}}

\* The instructions appended for the expression at node n: a block item and the
\* expression it holds are one node, and the Return or the Copy to the declared
\* variable is the block item's.
OwnOfExpr(n) == {i \in Own(n) : Len(n) > 1 \/ tac[i].tag \notin {"Return", "Copy"}}

\* C27: for every Binary(op, l, r) whose operator is not && or ||, every
\* instruction derived from l comes before every instruction derived from r, and
\* after them comes the one instruction of the node itself: a Binary of op on the
\* value of l and the value of r, storing to a temporary with a higher number than
\* any temporary the instructions of l and r store to.
C27_BinaryOperandOrder ==
    Flattened =>
        \A n \in PlainBinaryNodes :
            \E e \in OwnOfExpr(n) :
                /\ OwnOfExpr(n) = {e}
                /\ \A i \in DerivedFrom(n \o <<1>>) :
                      \A j \in DerivedFrom(n \o <<2>>) : i < j
                /\ \A i \in DerivedFrom(n \o <<1>>) \cup DerivedFrom(n \o <<2>>) : i < e
                /\ tac[e].tag = "Binary"
                /\ tac[e].op = NodeAt(n).op
                /\ tac[e].src1 = OperandValue(n \o <<1>>)
                /\ tac[e].src2 = OperandValue(n \o <<2>>)
                /\ IsTemporary(tac[e].dst)
                /\ \A t \in TemporariesStored(DerivedFrom(n \o <<1>>)
                                                \cup DerivedFrom(n \o <<2>>)) :
                      TemporaryIndex(t) < TemporaryIndex(tac[e].dst)

\* C27's case: an Add both of whose operands need instructions, the right one an
\* assignment, so the order of the two is visible in the TAC.
C27_Witness ==
    /\ Flattened
    /\ \E n \in PlainBinaryNodes :
          /\ NodeAt(n).op = "Add"
          /\ NodeAt(n \o <<1>>).kind = "Unary"
          /\ NodeAt(n \o <<2>>).kind = "Assignment"
          /\ DerivedFrom(n \o <<1>>) # {}
          /\ DerivedFrom(n \o <<2>>) # {}
          /\ tac[Len(tac) - 1].tag = "Binary"
          /\ tac[Len(tac) - 1].dst = "tmp.1"

(***************************************************************************)
(* Properties of the labels of the TAC.                                    *)
(***************************************************************************)
\* The positions of the Labels and of the jumps of the TAC.
LabelsAt == {i \in 1..Len(tac) : tac[i].tag = "Label"}
JumpsAt == {i \in 1..Len(tac) : tac[i].tag \in {"Jump", "JumpIfZero", "JumpIfNotZero"}}

\* C28: in the TAC flatten returns no two Labels have the same name, and the
\* target of every Jump, JumpIfZero and JumpIfNotZero is the name of exactly one
\* Label, which comes after the jump.
C28_LabelsUniqueAndForward ==
    Flattened =>
        /\ \A i \in LabelsAt : \A j \in LabelsAt : tac[i].name = tac[j].name => i = j
        /\ \A j \in JumpsAt :
              \E t \in LabelsAt :
                  /\ {i \in LabelsAt : tac[i].name = tac[j].target} = {t}
                  /\ j < t

\* C28's case: two && nodes, one inside the other, so the prefixes and_false and
\* and_end are each used twice and only the counter tells the labels apart.
C28_Witness ==
    /\ Flattened
    /\ {tac[i].name : i \in LabelsAt} = {"and_false.0", "and_end.1", "and_false.2", "and_end.3"}
    /\ Cardinality(LabelsAt) = 4
    /\ Cardinality(JumpsAt) = 4

(***************************************************************************)
(* Properties of the passes after resolve, taken together.                 *)
(***************************************************************************)
\* resolve has accepted the function.
Accepted == pc \notin {"resolve", "rejected"}

\* C30: for every function resolve accepts, flatten, generate and emit meet no
\* unreachable arm: flatten does not come to an assignment whose target is not a
\* variable nor convert && or ||, generate maps no operator it has no arm for, and
\* emit is given no Pseudo operand and no shift count other than an Immediate or CX.
C30_NoUnreachableArm ==
    Accepted =>
        /\ pc # "panicked"
        /\ \A i \in 1..Len(tac) :
              tac[i].tag \in {"Unary", "Binary"} => tac[i].op # "unreachable"
        /\ \A i \in 1..Len(instructions) :
              /\ instructions[i].tag \in {"Unary", "Binary"}
                    => instructions[i].op # "unreachable"
              /\ instructions[i].tag \in {"SetCondition", "JumpCondition"}
                    => instructions[i].cond # "unreachable"

\* C30's case: a shift by a variable went through all the passes and emit wrote it
\* with the count in cl.
C30_Witness ==
    /\ pc = "emitted"
    /\ \E i \in 1..Len(tac) : tac[i].tag = "Binary" /\ tac[i].op = "LeftShift"
    /\ \E k \in 2..Len(assembly_code) :
          /\ assembly_code[k] = "\tsal dword ptr [rbp - 4], cl"
          /\ assembly_code[k - 1] = "\tmov ecx, r10d"

====
